---------------------------- MODULE Spec2Model ----------------------------
(***************************************************************************)
(* gored: a RESP key-value server over a sharded LRU cache.                *)
(*                                                                         *)
(* The module models                                                       *)
(*   - the sharded LRU cache of src/resp.go (LRUCache: NewLRUCache,         *)
(*     getShard, Put, evictFromShard, Get, Stats) at the granularity of    *)
(*     its lock acquisitions and list/map statements, called by            *)
(*     concurrent goroutines;                                              *)
(*   - the RESP decoder (Resp.Read and its helpers), the encoder           *)
(*     (Value.Marshal), the dispatcher (processCommand) and the            *)
(*     per-connection loop (handleClient).                                 *)
(***************************************************************************)
EXTENDS Integers, Sequences, FiniteSets, TLC

(***************************************************************************)
(* Bounds of the model.                                                    *)
(***************************************************************************)
\* goroutines that call the cache concurrently
NumProcs == 2
\* the cache has 2^ShardBits shards (256 = 2^8 in NewLRUCache)
ShardBits == 1
\* number of keys of KeyPool the concurrent callers use
NumKeys == 3
\* number of values of ValPool in use
NumVals == 2
\* NewLRUCache(capacity) is called with a capacity in 0..MaxCapacity
MaxCapacity == 2
\* Put and Get calls started in one behaviour of concurrent callers
MaxOps == 3
\* the same three bounds for a single caller
SeqNumKeys == 4
SeqMaxCapacity == 6
SeqMaxOps == 5
\* puts of one writer task
WriterPuts == 2

Procs == 1..NumProcs

\* keys and values are byte strings
KeyPool ==
    << <<97>>, <<99>>, <<98>>, <<101>>, <<100>>, <<103>>, <<97, 98>>, <<>>,
       <<102>>, <<104>>,
       <<104, 116, 116, 112, 120>>, [i \in 1..256 |-> 107] >>
ValPool == << <<120>>, <<121>>, <<122>> >>
AllKeys == {KeyPool[i] : i \in 1..Len(KeyPool)}
Keys == {KeyPool[i] : i \in 1..NumKeys}
SeqKeys == {KeyPool[i] : i \in 1..SeqNumKeys}
Vals == {ValPool[i] : i \in 1..NumVals}

RECURSIVE Pow2(_)
Pow2(n) == IF n = 0 THEN 1 ELSE 2 * Pow2(n - 1)

\* shardCount := 256 in the source; a power of two
shardCount == Pow2(ShardBits)
shardMask == shardCount - 1
Shards == 0..(shardCount - 1)

(***************************************************************************)
(* 32-bit unsigned arithmetic for getShard.  A uint32 is kept as the pair  *)
(* <<hi, lo>> of its 16-bit halves, so that no intermediate result leaves  *)
(* the range of the model checker's integers.                              *)
(***************************************************************************)

Half == Pow2(16)

RECURSIVE BitXor(_, _)
BitXor(a, b) ==
    IF a = 0 THEN b
    ELSE IF b = 0 THEN a
    ELSE (((a % 2) + (b % 2)) % 2) + 2 * BitXor(a \div 2, b \div 2)

RECURSIVE BitAnd(_, _)
BitAnd(a, b) ==
    IF a = 0 \/ b = 0 THEN 0
    ELSE ((a % 2) * (b % 2)) + 2 * BitAnd(a \div 2, b \div 2)

\* uint32(2166136261) = 0x811C9DC5
FNVOffsetHi == 33052
FNVOffsetLo == 40389
\* 16777619 = 0x01000193
FNVPrimeHi == 256
FNVPrimeLo == 403

\* h ^= uint32(b), b a byte: only the low half changes
XorByte(h, b) == <<h[1], BitXor(h[2], b)>>

\* the multiplication as a bug would have it: the carry of the low half is
\* dropped
MulPrimeNoCarry(h) ==
    LET t == h[2] * FNVPrimeLo
    IN  << ((h[1] * FNVPrimeLo) + (h[2] * FNVPrimeHi)) % Half, t % Half >>

\* h *= 16777619 modulo 2^32
MulPrime(h) ==
    LET t == h[2] * FNVPrimeLo
    IN  << ((h[1] * FNVPrimeLo) + (h[2] * FNVPrimeHi) + (t \div Half)) % Half,
           t % Half >>

RECURSIVE fnv1a(_, _)
\* the loop over the bytes of key, first to last: the bytes of the first
\* half, then those of the second.  h is a uint32, each half below 2^16.
fnv1a(h, key) ==
    IF h[1] >= Half \/ h[2] >= Half \/ key = <<>> THEN h
    ELSE IF Len(key) = 1 THEN MulPrime(XorByte(h, key[1]))
    ELSE fnv1a(fnv1a(h, SubSeq(key, 1, Len(key) \div 2)),
               SubSeq(key, (Len(key) \div 2) + 1, Len(key)))

\* the index of the shard getShard returns: h & c.shardMask
getShard(key) == BitAnd(fnv1a(<<FNVOffsetHi, FNVOffsetLo>>, key)[2], shardMask)

\* getShard, tabulated over the keys of the model
ShardOf == [k \in AllKeys |-> getShard(k)]

(***************************************************************************)
(* container/list, as far as the cache uses it.  A list is the sequence of *)
(* its elements, front first; an element is [id, key, value]: id stands    *)
(* for the *list.Element pointer, key and value for its *cacheEntry.       *)
(***************************************************************************)
Nil == 0

InList(q, e) == \E i \in 1..Len(q) : q[i].id = e

IndexOf(q, e) == CHOOSE i \in 1..Len(q) : q[i].id = e

Without(q, e) == SelectSeq(q, LAMBDA n : n.id # e)

\* l.PushFront(v)
PushFront(q, n) == <<n>> \o q

\* MoveToFront as a bug would have it: the element changes places with the
\* first one
MoveToFrontSwaps(q, e) ==
    IF InList(q, e)
    THEN [i \in 1..Len(q) |-> IF i = 1 THEN q[IndexOf(q, e)]
                              ELSE IF i = IndexOf(q, e) THEN q[1] ELSE q[i]]
    ELSE q

\* MoveToFront as a bug would have it: the element stays where it is
MoveToFrontStays(q, e) == q

\* MoveToFront as a bug would have it: an element that was removed from the
\* list is linked in again
MoveToFrontRelinks(q, e) ==
    IF InList(q, e) THEN <<q[IndexOf(q, e)]>> \o Without(q, e)
    ELSE <<[id |-> e, key |-> <<>>, value |-> <<>>]>> \o q

\* l.MoveToFront(e): a no-op when e is not an element of l (e.list != l)
MoveToFront(q, e) ==
    IF InList(q, e) THEN <<q[IndexOf(q, e)]>> \o Without(q, e) ELSE q

\* Back as a bug would have it: the front element, the most recently used
BackIsFront(q) == IF Len(q) = 0 THEN Nil ELSE q[1].id

\* l.Back(): nil on an empty list
Back(q) == IF Len(q) = 0 THEN Nil ELSE q[Len(q)].id

\* Remove as a bug would have it: the element stays in the list
RemoveNothing(q, e) == q

\* l.Remove(e): removes e if it is an element of l
Remove(q, e) == Without(q, e)

\* the overwrite as a bug would have it: the entry keeps its value
SetValueNothing(q, e, v) == q

\* shard.items[key].Value.(*cacheEntry).value = value
SetValue(q, e, v) ==
    [i \in 1..Len(q) |-> IF q[i].id = e THEN [q[i] EXCEPT !.value = v] ELSE q[i]]


NoKey == <<>>
NoVal == <<>>

(***************************************************************************)
(* RESP values.  A Go string is the sequence of its bytes.                 *)
(***************************************************************************)
\* the first byte of a frame, by type
\* STRING of the source (the name is taken in TLA+)
STRINGTYPE == 43
ERROR == 45
INTEGER == 58
BULK == 36
ARRAY == 42

CR == 13
LF == 10
CRLF == <<CR, LF>>

\* Value{}: every field at its zero value
NoValue == [typ |-> "", str |-> <<>>, num |-> 0, bulk |-> <<>>, array |-> <<>>]

StringValue(s) == [NoValue EXCEPT !.typ = "string", !.str = s]
ErrorValue(s) == [NoValue EXCEPT !.typ = "error", !.str = s]
IntegerValue(n) == [NoValue EXCEPT !.typ = "integer", !.num = n]
BulkValue(b) == [NoValue EXCEPT !.typ = "bulk", !.bulk = b]
ArrayValue(a) == [NoValue EXCEPT !.typ = "array", !.array = a]
NullValue == [NoValue EXCEPT !.typ = "null"]

IsDigit(b) == b \in 48..57

RECURSIVE Digits(_)
\* the decimal digits of n >= 0
Digits(n) == IF n < 10 THEN <<48 + n>> ELSE Append(Digits(n \div 10), 48 + (n % 10))

\* strconv.Itoa(n)
Itoa(n) == IF n < 0 THEN <<45>> \o Digits(0 - n) ELSE Digits(n)

RECURSIVE DigitsValue(_)
\* the number a sequence of digits denotes
DigitsValue(s) ==
    IF s = <<>> THEN 0
    ELSE 10 * DigitsValue(SubSeq(s, 1, Len(s) - 1)) + (s[Len(s)] - 48)

\* strconv.Atoi(s): an optional sign, then one digit at least; ok is FALSE
\* when Atoi returns an error
Atoi(s) ==
    LET signed == s # <<>> /\ s[1] \in {43, 45}
        body == IF signed THEN Tail(s) ELSE s
    IN  IF body = <<>> \/ \E i \in 1..Len(body) : ~IsDigit(body[i])
        THEN [ok |-> FALSE, n |-> 0]
        ELSE [ok |-> TRUE,
              n |-> IF signed /\ s[1] = 45 THEN 0 - DigitsValue(body)
                    ELSE DigitsValue(body)]

(***************************************************************************)
(* Value.Marshal (writer.go).                                              *)
(***************************************************************************)
RECURSIVE Marshal(_)
RECURSIVE MarshalItems(_)

\* for _, item := range v.array { bytes = append(bytes, item.Marshal()...) }
MarshalItems(a) ==
    IF a = <<>> THEN <<>> ELSE Marshal(Head(a)) \o MarshalItems(Tail(a))

Marshal(v) ==
    CASE v.typ = "string" -> <<STRINGTYPE>> \o v.str \o CRLF
      [] v.typ = "error" -> <<ERROR>> \o v.str \o CRLF
      [] v.typ = "integer" -> <<INTEGER>> \o Itoa(v.num) \o CRLF
      [] v.typ = "bulk" ->
            IF v.bulk = <<>> THEN <<BULK>> \o Itoa(-1) \o CRLF
            ELSE <<BULK>> \o Itoa(Len(v.bulk)) \o CRLF \o v.bulk \o CRLF
      [] v.typ = "array" -> <<ARRAY>> \o Itoa(Len(v.array)) \o CRLF \o MarshalItems(v.array)
      [] v.typ = "null" -> <<BULK>> \o Itoa(-1) \o CRLF
      [] OTHER -> <<>>

(***************************************************************************)
(* The decoder (Resp.Read and its helpers) over a bufio.Reader.  b is the  *)
(* bytes the reader has got from the connection so far, pos the index of   *)
(* the next unread byte, eof says that the connection has no more bytes to *)
(* give.  A result has st = "ok", "err" (the function returns an error),   *)
(* "panic" (a run-time panic), or "more": the reader has to read from the  *)
(* connection again.                                                       *)
(***************************************************************************)
Stop(st) ==
    [st |-> st, val |-> NoValue, line |-> <<>>, n |-> 0, pos |-> 0, reads |-> 0]

\* the reader runs out of bytes: an error at the end of the stream
Short(eof) == Stop(IF eof THEN "err" ELSE "more")

\* r.reader.ReadString('\n'): the bytes up to the first LF, LF included
ReadString(b, pos, eof) ==
    LET nl == {i \in pos..Len(b) : b[i] = LF} IN
    IF nl = {} THEN Short(eof)
    ELSE LET i == CHOOSE i \in nl : \A j \in nl : i <= j
         IN  [Stop("ok") EXCEPT !.line = SubSeq(b, pos, i), !.pos = i + 1]

\* line[:len(line)-2] of the line r that ReadString returned: a panic on a
\* line of one byte
Chop(r) ==
    IF r.st # "ok" THEN r
    ELSE IF Len(r.line) < 2 THEN Stop("panic")
    ELSE [r EXCEPT !.line = SubSeq(r.line, 1, Len(r.line) - 2)]

readLine(b, pos, eof) == Chop(ReadString(b, pos, eof))

\* strconv.Atoi of the line r that readLine returned
Number(r) ==
    IF r.st # "ok" THEN r
    ELSE IF ~Atoi(r.line).ok THEN Stop("err")
    ELSE [r EXCEPT !.n = Atoi(r.line).n]

readInteger(b, pos, eof) == Number(readLine(b, pos, eof))

\* the Value a reader returns for the line or the number r it has read
Valued(r, val) == IF r.st # "ok" THEN r ELSE [r EXCEPT !.val = val]

readSimpleString(b, pos, eof) == Valued(readLine(b, pos, eof), StringValue(readLine(b, pos, eof).line))

readError(b, pos, eof) == Valued(readLine(b, pos, eof), ErrorValue(readLine(b, pos, eof).line))

readIntegerValue(b, pos, eof) == Valued(readInteger(b, pos, eof), IntegerValue(readInteger(b, pos, eof).n))

\* the end of readBulk: t is the outcome of the r.readLine() after the
\* payload, whose error is ignored
BulkRead(bulk, len, t) ==
    IF t.st \in {"more", "panic"} THEN Stop(t.st)
    ELSE [Stop("ok") EXCEPT !.val = BulkValue(bulk),
                            !.pos = IF t.st = "ok" THEN t.pos ELSE len + 1]

\* readBulk once readInteger has returned r: make panics on a negative
\* length, io.ReadFull wants r.n bytes
BulkOf(b, eof, r) ==
    IF r.st # "ok" THEN r
    ELSE IF r.n = -1 THEN [r EXCEPT !.val = NullValue]
    ELSE IF r.n < 0 THEN Stop("panic")
    ELSE IF r.pos + r.n - 1 > Len(b) THEN Short(eof)
    ELSE BulkRead(SubSeq(b, r.pos, r.pos + r.n - 1), Len(b),
                  readLine(b, r.pos + r.n, eof))

readBulk(b, pos, eof) == BulkOf(b, eof, readInteger(b, pos, eof))

RECURSIVE Read(_, _, _)
RECURSIVE readItems(_, _, _, _, _)
RECURSIVE ItemRead(_, _, _, _, _)

\* the loop of readArray: i elements are still to be read, array holds
\* those read so far
readItems(b, pos, eof, i, array) ==
    IF i = 0 THEN [Stop("ok") EXCEPT !.val = ArrayValue(array), !.pos = pos]
    ELSE ItemRead(b, eof, i, array, Read(b, pos, eof))

\* val, err := r.Read() has returned r in the loop
ItemRead(b, eof, i, array, r) ==
    IF r.st # "ok" THEN Stop(r.st)
    ELSE readItems(b, r.pos, eof, i - 1, Append(array, r.val))

\* readArray once readInteger has returned r
ArrayOf(b, eof, r) ==
    IF r.st # "ok" THEN r
    ELSE IF r.n = -1 THEN [r EXCEPT !.val = NullValue]
    ELSE IF r.n < 0 THEN Stop("panic")
    ELSE readItems(b, r.pos, eof, r.n, <<>>)

readArray(b, pos, eof) == ArrayOf(b, eof, readInteger(b, pos, eof))

Read(b, pos, eof) ==
    IF pos > Len(b) THEN Short(eof)
    ELSE CASE b[pos] = STRINGTYPE -> readSimpleString(b, pos + 1, eof)
           [] b[pos] = ERROR -> readError(b, pos + 1, eof)
           [] b[pos] = INTEGER -> readIntegerValue(b, pos + 1, eof)
           [] b[pos] = ARRAY -> readArray(b, pos + 1, eof)
           [] b[pos] = BULK -> readBulk(b, pos + 1, eof)
           [] OTHER -> Stop("err")

(***************************************************************************)
(* processCommand (resp.go).  The texts of the program, as bytes.          *)
(***************************************************************************)
\* PING
PING == <<80, 73, 78, 71>>
\* SET
SET == <<83, 69, 84>>
\* PUT
PUT == <<80, 85, 84>>
\* GET
GET == <<71, 69, 84>>
\* STATS
STATS == <<83, 84, 65, 84, 83>>
\* PONG
PONG == <<80, 79, 78, 71>>
\* OK
OK == <<79, 75>>
\* ERR invalid command format
ErrInvalidFormat ==
    <<69, 82, 82, 32, 105, 110, 118, 97, 108, 105, 100, 32, 99, 111, 109,
      109, 97, 110, 100, 32, 102, 111, 114, 109, 97, 116>>
\* ERR empty command
ErrEmptyCommand ==
    <<69, 82, 82, 32, 101, 109, 112, 116, 121, 32, 99, 111, 109, 109, 97,
      110, 100>>
\* ERR invalid command type
ErrInvalidType ==
    <<69, 82, 82, 32, 105, 110, 118, 97, 108, 105, 100, 32, 99, 111, 109,
      109, 97, 110, 100, 32, 116, 121, 112, 101>>
\* ERR wrong number of arguments for '
ErrWrongArgs ==
    <<69, 82, 82, 32, 119, 114, 111, 110, 103, 32, 110, 117, 109, 98, 101,
      114, 32, 111, 102, 32, 97, 114, 103, 117, 109, 101, 110, 116, 115, 32,
      102, 111, 114, 32, 39>>
\* ' command
ErrCommand == <<39, 32, 99, 111, 109, 109, 97, 110, 100>>
\* ERR key or value too long (max 256 chars)
ErrTooLong ==
    <<69, 82, 82, 32, 107, 101, 121, 32, 111, 114, 32, 118, 97, 108, 117,
      101, 32, 116, 111, 111, 32, 108, 111, 110, 103, 32, 40, 109, 97, 120,
      32, 50, 53, 54, 32, 99, 104, 97, 114, 115, 41>>
\* ERR unknown command '
ErrUnknown ==
    <<69, 82, 82, 32, 117, 110, 107, 110, 111, 119, 110, 32, 99, 111, 109,
      109, 97, 110, 100, 32, 39>>
\* '
Quote == <<39>>
\* {"status":"OK","message":"Key inserted/updated successfully."}
PutOK ==
    <<123, 34, 115, 116, 97, 116, 117, 115, 34, 58, 34, 79, 75, 34, 44, 34,
      109, 101, 115, 115, 97, 103, 101, 34, 58, 34, 75, 101, 121, 32, 105,
      110, 115, 101, 114, 116, 101, 100, 47, 117, 112, 100, 97, 116, 101,
      100, 32, 115, 117, 99, 99, 101, 115, 115, 102, 117, 108, 108, 121, 46,
      34, 125>>
\* {"status":"ERROR","message":"Key not found."}
KeyNotFound ==
    <<123, 34, 115, 116, 97, 116, 117, 115, 34, 58, 34, 69, 82, 82, 79, 82,
      34, 44, 34, 109, 101, 115, 115, 97, 103, 101, 34, 58, 34, 75, 101, 121,
      32, 110, 111, 116, 32, 102, 111, 117, 110, 100, 46, 34, 125>>
\* http
HttpPrefix == <<104, 116, 116, 112>>

\* the longest key and the longest value SET and PUT accept
MaxLength == 256

\* strings.ToUpper, on ASCII
ToUpper(s) == [i \in 1..Len(s) |-> IF s[i] \in 97..122 THEN s[i] - 32 ELSE s[i]]

\* strings.HasPrefix(s, prefix)
HasPrefix(s, prefix) == Len(s) >= Len(prefix) /\ SubSeq(s, 1, Len(prefix)) = prefix

\* "%.2f" of float64(hits) / float64(gets) * 100.0, and of 0.0 when gets = 0:
\* the rate in hundredths, rounded to nearest
FormatRate(hits, gets) ==
    LET c == IF gets > 0 THEN ((2 * 10000 * hits) + gets) \div (2 * gets) ELSE 0
        f == c % 100
    IN  Itoa(c \div 100) \o <<46>> \o (IF f < 10 THEN <<48>> ELSE <<>>) \o Itoa(f)

\* fmt.Sprintf of the statistics line
statsStr(stats) ==
    <<67, 97, 112, 97, 99, 105, 116, 121, 58, 32>> \o Itoa(stats.capacity)
    \o <<44, 32, 83, 105, 122, 101, 58, 32>> \o Itoa(stats.size)
    \o <<44, 32, 71, 101, 116, 32, 79, 112, 115, 58, 32>> \o Itoa(stats.get_ops)
    \o <<44, 32, 80, 117, 116, 32, 79, 112, 115, 58, 32>> \o Itoa(stats.put_ops)
    \o <<44, 32, 72, 105, 116, 115, 58, 32>> \o Itoa(stats.hits)
    \o <<44, 32, 77, 105, 115, 115, 101, 115, 58, 32>> \o Itoa(stats.misses)
    \o <<44, 32, 72, 105, 116, 32, 82, 97, 116, 101, 58, 32>> \o FormatRate(stats.hits, stats.get_ops)
    \o <<37, 44, 32, 69, 118, 105, 99, 116, 105, 111, 110, 115, 58, 32>> \o Itoa(stats.evictions)

\* the key or the value an argument carries
Arg(v) == IF v.typ = "bulk" THEN v.bulk ELSE v.str

\* cmd of processCommand: the upper-cased name, of a value that has one
Cmd(value) == ToUpper(Arg(value.array[1]))

\* the value is an array whose first element names a command
Named(value) ==
    /\ value.typ = "array"
    /\ Len(value.array) > 0
    /\ value.array[1].typ \in {"bulk", "string"}

\* the cap as a bug would have it: 256 bytes are too long
WithinCapOffByOne(s) == Len(s) < MaxLength

\* a key or a value the cap of SET and PUT lets pass
WithinCap(s) == Len(s) <= MaxLength

NoCall == [op |-> "none", key |-> NoKey, value |-> NoVal]

\* the call of the cache processCommand makes for value, if any
CacheCall(value) ==
    IF ~Named(value) THEN NoCall
    ELSE IF Cmd(value) \in {SET, PUT}
    THEN IF Len(value.array) = 3
            /\ WithinCap(Arg(value.array[2]))
            /\ WithinCap(Arg(value.array[3]))
         THEN [op |-> "put", key |-> Arg(value.array[2]), value |-> Arg(value.array[3])]
         ELSE NoCall
    ELSE IF Cmd(value) = GET
    THEN IF Len(value.array) = 2
         THEN [op |-> "get", key |-> Arg(value.array[2]), value |-> NoVal]
         ELSE NoCall
    ELSE IF Cmd(value) = STATS THEN [op |-> "stats", key |-> NoKey, value |-> NoVal]
    ELSE NoCall

\* the Value processCommand returns for value, ret being what its call of
\* the cache returned
processCommand(value, ret) ==
    IF value.typ # "array" THEN ErrorValue(ErrInvalidFormat)
    ELSE IF Len(value.array) = 0 THEN ErrorValue(ErrEmptyCommand)
    ELSE IF value.array[1].typ \notin {"bulk", "string"} THEN ErrorValue(ErrInvalidType)
    ELSE LET cmd == Cmd(value) IN
         CASE cmd = PING ->
                IF Len(value.array) > 2 THEN ErrorValue(ErrWrongArgs \o PING \o ErrCommand)
                ELSE IF Len(value.array) = 1 THEN StringValue(PONG)
                ELSE IF value.array[2].typ = "bulk" THEN BulkValue(value.array[2].bulk)
                ELSE StringValue(value.array[2].str)
           [] cmd \in {SET, PUT} ->
                IF Len(value.array) # 3 THEN ErrorValue(ErrWrongArgs \o cmd \o ErrCommand)
                ELSE IF CacheCall(value).op = "none" THEN ErrorValue(ErrTooLong)
                ELSE IF cmd = PUT THEN BulkValue(PutOK)
                ELSE StringValue(OK)
           [] cmd = GET ->
                IF Len(value.array) # 2 THEN ErrorValue(ErrWrongArgs \o GET \o ErrCommand)
                ELSE IF ~ret.ok
                THEN IF HasPrefix(Arg(value.array[2]), HttpPrefix)
                     THEN BulkValue(KeyNotFound)
                     ELSE NullValue
                ELSE BulkValue(ret.value)
           [] cmd = STATS -> StringValue(statsStr(ret.stats))
           [] OTHER -> ErrorValue(ErrUnknown \o cmd \o Quote)

\* formatRESPCommand (wraper/httpwrapper.go): the frame a client sends for
\* a command
RECURSIVE formatArgs(_)
formatArgs(args) ==
    IF args = <<>> THEN <<>>
    ELSE <<BULK>> \o Itoa(Len(Head(args))) \o CRLF \o Head(args) \o CRLF
         \o formatArgs(Tail(args))

formatRESPCommand(args) == <<ARRAY>> \o Itoa(Len(args)) \o CRLF \o formatArgs(args)


(***************************************************************************)
(* State.                                                                  *)
(***************************************************************************)
VARIABLES
    capacity,   \* LRUCache.capacity
    items,      \* items[s]: cacheShard.items of shard s, a map key -> element
    evictionQ,  \* evictionQ[s]: cacheShard.evictionQ of shard s, front first
    shardMutex, \* shardMutex[s]: cacheShard.mutex, [w: the goroutine holding
                \* it exclusively or Nil, r: the goroutines holding it shared]
    cMutex,     \* LRUCache.mutex: the goroutines holding it shared (Stats)
    hitCount, missCount, totalGets, totalPuts, evictions,  \* LRUCache counters
    pc,         \* pc[p]: the statement goroutine p is at
    loc,        \* loc[p]: the local variables of p's call, and ret, what
                \* p's last call returned
    conn,       \* conn[p]: the connection goroutine p serves in handleClient:
                \* open (the socket), wire (the chunks not yet read), eof
                \* (the client has closed), stream (the frames the client
                \* sends), applied (the values decoded), out (the replies)
    todo,       \* todo[p]: the keys writer task p has still to put
    inserted,   \* history: the keys the writer tasks have put so far
    sent,       \* sent[p]: what the peer of p's decoder has written to it
    fresh,      \* history: fresh[s] is the last Put that returned on shard s
                \* with no other Put to s started or in flight since, raced
                \* when it ran concurrently with a Put of its key
    hist,       \* history: hist[s] lists the keys put into shard s, while
                \* the shard was only ever filled by sequential Puts of new keys
    racedHit,   \* history: some Get found its element evicted at promotion
    overwrote   \* history: some Put found its key present

cacheVars == <<capacity, items, evictionQ>>
lockVars == <<shardMutex, cMutex>>
counters == <<hitCount, missCount, totalGets, totalPuts, evictions>>
procVars == <<pc, loc>>
ghostVars == <<fresh, hist, racedHit, overwrote>>
scriptVars == <<todo, inserted, sent>>
callerVars == <<scriptVars, conn>>
vars == <<cacheVars, lockVars, counters, procVars, callerVars, ghostVars>>

\* what a call of the cache returned to processCommand: (value, ok) of
\* Get, the map of Stats
NoStats ==
    [capacity |-> 0, size |-> 0, get_ops |-> 0, put_ops |-> 0, hits |-> 0,
     misses |-> 0, evictions |-> 0, shard_count |-> 0]
NoRet == [value |-> NoVal, ok |-> FALSE, stats |-> NoStats]

\* history: the map and the list of a shard as a Put or a Get found them
\* when it took the lock
NoShard == [items |-> <<>>, evictionQ |-> <<>>]

\* the locals of a goroutine that is in no call, and the history of its
\* call: the Puts it raced with, what its Get expects, whether its element
\* was gone at the promotion, what its Put found and how many entries it
\* removed
IdleLoc ==
    [key |-> NoKey, value |-> NoVal, elem |-> Nil, ok |-> FALSE,
     ekey |-> NoKey, totalItems |-> 0, i |-> 0, expect |-> FALSE,
     expVal |-> NoVal, ret |-> NoRet,
     rival |-> FALSE, last |-> FALSE, expRaced |-> FALSE, gone |-> FALSE,
     before |-> NoShard, removed |-> 0]

\* a goroutine that serves no connection
NoConn ==
    [attached |-> FALSE, open |-> FALSE, wire |-> <<>>, eof |-> FALSE,
     out |-> <<>>, cmd |-> NoValue, applied |-> <<>>, stream |-> <<>>]

NoFresh == [set |-> FALSE, key |-> NoKey, value |-> NoVal, raced |-> FALSE, last |-> FALSE]
HistOff == [on |-> FALSE, keys |-> <<>>]

\* element ids: one per key that can be in a list, one per goroutine that
\* can hold on to an element that was removed
ElemIds == 1..(Len(KeyPool) + NumProcs)

\* the ids some list or some goroutine refers to
UsedIds ==
    UNION {{evictionQ[s][i].id : i \in 1..Len(evictionQ[s])} : s \in Shards}
    \cup {loc[p].elem : p \in Procs}

\* &cacheEntry{...} pushed as a new element: an address nothing refers to
NewElem == CHOOSE e \in ElemIds : e \notin UsedIds /\ \A f \in ElemIds : f < e => f \in UsedIds

\* the bound as a bug would have it: the quotient is rounded up
perShardLimitRoundedUp(c) == (c + shardCount - 1) \div shardCount

\* c.capacity / c.shardCount, the bound Put compares the list length with
perShardLimit(c) == c \div shardCount

\* NewLRUCache(capacity): every shard with an empty map and an empty list
NewLRUCache(c) ==
    /\ capacity = c
    /\ items = [s \in Shards |-> <<>>]
    /\ evictionQ = [s \in Shards |-> <<>>]
    /\ shardMutex = [s \in Shards |-> [w |-> Nil, r |-> {}]]
    /\ cMutex = {}
    /\ hitCount = 0 /\ missCount = 0 /\ totalGets = 0
    /\ totalPuts = 0 /\ evictions = 0

InitProcs ==
    /\ pc = [p \in Procs |-> "idle"]
    /\ loc = [p \in Procs |-> IdleLoc]
    /\ conn = [p \in Procs |-> NoConn]

\* no writer task
NoScript ==
    /\ todo = [p \in Procs |-> <<>>]
    /\ inserted = {}
    /\ sent = [p \in Procs |-> <<>>]

InitGhost ==
    /\ fresh = [s \in Shards |-> NoFresh]
    /\ hist = [s \in Shards |-> HistOff]
    /\ racedHit = FALSE
    /\ overwrote = FALSE

Init ==
    /\ \E c \in 0..MaxCapacity : NewLRUCache(c)
    /\ InitProcs
    /\ NoScript
    /\ InitGhost

(***************************************************************************)
(* sync.RWMutex.  c.mutex is only ever locked exclusively around one       *)
(* counter increment, with no other call in between, so such a section is  *)
(* one step that needs the mutex free.                                     *)
(***************************************************************************)
\* c.mutex.Lock() can return
cMutexFree == cMutex = {}

\* shard.mutex.Lock() can return
CanLock(s) == shardMutex[s].w = Nil /\ shardMutex[s].r = {}

\* shard.mutex.RLock() can return
CanRLock(s) == shardMutex[s].w = Nil

Lock(s, p) == [shardMutex EXCEPT ![s].w = p]
Unlock(s) == [shardMutex EXCEPT ![s].w = Nil]
RLock(s, p) == [shardMutex EXCEPT ![s].r = @ \cup {p}]
RUnlock(s, p) == [shardMutex EXCEPT ![s].r = @ \ {p}]

\* the keys of a map
KeysOf(m) == DOMAIN m

\* m[k] = e
MapPut(m, k, e) == [x \in (DOMAIN m) \cup {k} |-> IF x = k THEN e ELSE m[x]]

\* delete as a bug would have it: the key stays in the map
MapDeleteNothing(m, k) == m

\* delete(m, k)
MapDelete(m, k) == [x \in (DOMAIN m) \ {k} |-> m[x]]

PutLabels == {"put_count", "put_lock", "put_check", "put_map",
              "evict_remove", "evict_delete", "evict_count"}
GetLabels == {"get_count", "get_rlock", "get_runlock", "get_miss",
              "get_lock", "get_hit"}
StatsLabels == {"stats_rlock", "stats_loop"}

\* the Put and Get calls started so far
Started ==
    totalPuts + totalGets + Cardinality({p \in Procs : pc[p] \in {"put_count", "get_count"}})

\* some call of a goroutine other than p that puts into shard s is in flight
OtherPutOn(s, p) ==
    \E q \in Procs \ {p} : pc[q] \in PutLabels /\ ShardOf[loc[q].key] = s

\* some call of a goroutine other than p on a key of shard s is in flight
OtherOpOn(s, p) ==
    \E q \in Procs \ {p} : pc[q] \in (PutLabels \cup GetLabels) /\ ShardOf[loc[q].key] = s

(***************************************************************************)
(* History bookkeeping shared by the calls.                                *)
(***************************************************************************)
\* a Put to shard s starts: Gets in flight on s no longer follow a Put
\* directly
Unexpect(s) ==
    [q \in Procs |->
        IF pc[q] \in GetLabels /\ ShardOf[loc[q].key] = s
        THEN [loc[q] EXCEPT !.expect = FALSE, !.expVal = NoVal]
        ELSE loc[q]]

\* a Put of key k with a value other than v, by a goroutine other than p,
\* is in flight
RivalPut(p, k, v) ==
    \E q \in Procs \ {p} : pc[q] \in PutLabels /\ loc[q].key = k /\ loc[q].value # v

\* p calls Put(k, v): the Puts of k in flight with another value are
\* concurrent with it
Rivals(l, p, k, v) ==
    [q \in Procs |->
        IF q # p /\ pc[q] \in PutLabels /\ l[q].key = k /\ l[q].value # v
        THEN [l[q] EXCEPT !.rival = TRUE]
        ELSE l[q]]

\* no Put of p's key by another goroutine is in flight: none of them is
\* still to take the lock of the shard
LocksLast(p) ==
    ~\E q \in Procs \ {p} : pc[q] \in PutLabels /\ loc[q].key = loc[p].key

\* a Put of key k, value v by p returns on shard s
PutReturns(p, s, k, v) ==
    /\ fresh' = [fresh EXCEPT ![s] =
                    IF OtherPutOn(s, p) THEN NoFresh
                    ELSE [set |-> TRUE, key |-> k, value |-> v,
                          raced |-> loc[p].rival, last |-> loc[p].last]]
    /\ hist' = [hist EXCEPT ![s] =
                    IF hist[s].on /\ \A i \in 1..Len(hist[s].keys) : hist[s].keys[i] # k
                    THEN [on |-> TRUE, keys |-> Append(hist[s].keys, k)]
                    ELSE HistOff]

\* p's call returns r: to processCommand when p serves a connection
Return(p, r) ==
    /\ pc' = [pc EXCEPT ![p] = IF conn[p].attached THEN "write" ELSE "idle"]
    /\ loc' = [loc EXCEPT ![p] = [IdleLoc EXCEPT !.ret = r]]

(***************************************************************************)
(* LRUCache.Put(key, value)                                                *)
(***************************************************************************)
\* the caller's side of Put: what the call does to the model's bookkeeping
StartPut(p, k, v) ==
    LET s == ShardOf[k] IN
    /\ pc' = [pc EXCEPT ![p] = "put_count"]
    /\ loc' = [Rivals(Unexpect(s), p, k, v) EXCEPT
                  ![p] = [IdleLoc EXCEPT !.key = k, !.value = v,
                                         !.rival = RivalPut(p, k, v)]]
    /\ fresh' = [fresh EXCEPT ![s] = NoFresh]
    /\ hist' = [hist EXCEPT ![s] =
                    IF hist[s].on /\ ~OtherOpOn(s, p)
                       /\ Len(hist[s].keys) <= perShardLimit(capacity)
                    THEN hist[s] ELSE HistOff]
    /\ UNCHANGED <<cacheVars, lockVars, counters, racedHit, overwrote>>

\* a goroutine calls Put with any key and value
CallPut(p) ==
    /\ pc[p] = "idle"
    /\ Started < MaxOps
    /\ \E k \in Keys, v \in Vals : StartPut(p, k, v)
    /\ UNCHANGED callerVars

\* PutCount as a bug would have it: the Put is counted twice
PutCountTwice(p) ==
    /\ pc[p] = "put_count"
    /\ cMutexFree
    /\ totalPuts' = totalPuts + 2
    /\ pc' = [pc EXCEPT ![p] = "put_lock"]
    /\ UNCHANGED <<cacheVars, lockVars, hitCount, missCount, totalGets,
                   evictions, loc, callerVars, ghostVars>>

\* c.mutex.Lock(); c.totalPuts++; c.mutex.Unlock()
PutCount(p) ==
    /\ pc[p] = "put_count"
    /\ cMutexFree
    /\ totalPuts' = totalPuts + 1
    /\ pc' = [pc EXCEPT ![p] = "put_lock"]
    /\ UNCHANGED <<cacheVars, lockVars, hitCount, missCount, totalGets,
                   evictions, loc, callerVars, ghostVars>>

\* shard := c.getShard(key); shard.mutex.Lock()
PutLock(p) ==
    LET s == ShardOf[loc[p].key] IN
    /\ pc[p] = "put_lock"
    /\ CanLock(s)
    /\ shardMutex' = Lock(s, p)
    /\ pc' = [pc EXCEPT ![p] = "put_check"]
    /\ loc' = [loc EXCEPT ![p].last = LocksLast(p),
                          ![p].before = [items |-> items[s], evictionQ |-> evictionQ[s]]]
    /\ UNCHANGED <<cacheVars, cMutex, counters, callerVars, ghostVars>>

\* the key exists: MoveToFront, overwrite the value, return (the deferred
\* Unlock runs)
PutUpdate(p) ==
    LET s == ShardOf[loc[p].key]
        e == items[s][loc[p].key]
    IN
    /\ pc[p] = "put_check"
    /\ loc[p].key \in KeysOf(items[s])
    /\ evictionQ' = [evictionQ EXCEPT ![s] =
                        SetValue(MoveToFront(@, e), e, loc[p].value)]
    /\ shardMutex' = Unlock(s)
    /\ overwrote' = TRUE
    /\ PutReturns(p, s, loc[p].key, loc[p].value)
    /\ Return(p, NoRet)
    /\ UNCHANGED <<capacity, items, cMutex, counters, callerVars, racedHit>>

\* the key is new: entry := &cacheEntry{...}; elem := PushFront(entry)
PutPush(p) ==
    LET s == ShardOf[loc[p].key] IN
    /\ pc[p] = "put_check"
    /\ loc[p].key \notin KeysOf(items[s])
    /\ evictionQ' = [evictionQ EXCEPT ![s] =
                        PushFront(@, [id |-> NewElem, key |-> loc[p].key,
                                      value |-> loc[p].value])]
    /\ loc' = [loc EXCEPT ![p].elem = NewElem]
    /\ pc' = [pc EXCEPT ![p] = "put_map"]
    /\ UNCHANGED <<capacity, items, lockVars, counters, callerVars, ghostVars>>

\* the test as a bug would have it: one entry too many is let in
NeedsEvictOffByOne(s) == Len(evictionQ[s]) > perShardLimit(capacity) + 1

\* the test that decides whether Put evicts
NeedsEvict(s) == Len(evictionQ[s]) > perShardLimit(capacity)

\* shard.items[key] = elem; then the length test: evict, or return
PutMap(p) ==
    LET s == ShardOf[loc[p].key] IN
    /\ pc[p] = "put_map"
    /\ items' = [items EXCEPT ![s] = MapPut(@, loc[p].key, loc[p].elem)]
    /\ IF NeedsEvict(s)
       THEN /\ pc' = [pc EXCEPT ![p] = "evict_remove"]
            /\ loc' = [loc EXCEPT ![p].elem = Nil]
            /\ UNCHANGED <<shardMutex, fresh, hist>>
       ELSE /\ shardMutex' = Unlock(s)
            /\ PutReturns(p, s, loc[p].key, loc[p].value)
            /\ Return(p, NoRet)
    /\ UNCHANGED <<capacity, evictionQ, cMutex, counters, callerVars, racedHit, overwrote>>

\* evictFromShard: elem := Back(); if elem != nil { Remove(elem);
\* entry := elem.Value.(*cacheEntry)
EvictRemove(p) ==
    LET s == ShardOf[loc[p].key]
        e == Back(evictionQ[s])
    IN
    /\ pc[p] = "evict_remove"
    /\ IF e # Nil
       THEN /\ evictionQ' = [evictionQ EXCEPT ![s] = Remove(@, e)]
            /\ loc' = [loc EXCEPT ![p].ekey = evictionQ[s][IndexOf(evictionQ[s], e)].key,
                                  ![p].removed = @ + 1]
            /\ pc' = [pc EXCEPT ![p] = "evict_delete"]
            /\ UNCHANGED <<shardMutex, fresh, hist>>
       ELSE /\ shardMutex' = Unlock(s)
            /\ PutReturns(p, s, loc[p].key, loc[p].value)
            /\ Return(p, NoRet)
            /\ UNCHANGED evictionQ
    /\ UNCHANGED <<capacity, items, cMutex, counters, callerVars, racedHit, overwrote>>

\* delete(shard.items, entry.key)
EvictDelete(p) ==
    LET s == ShardOf[loc[p].key] IN
    /\ pc[p] = "evict_delete"
    /\ items' = [items EXCEPT ![s] = MapDelete(@, loc[p].ekey)]
    /\ pc' = [pc EXCEPT ![p] = "evict_count"]
    /\ UNCHANGED <<capacity, evictionQ, lockVars, counters, loc, callerVars, ghostVars>>

\* EvictCount as a bug would have it: the eviction is not counted
EvictUncounted(p) ==
    LET s == ShardOf[loc[p].key] IN
    /\ pc[p] = "evict_count"
    /\ cMutexFree
    /\ shardMutex' = Unlock(s)
    /\ PutReturns(p, s, loc[p].key, loc[p].value)
    /\ Return(p, NoRet)
    /\ UNCHANGED <<cacheVars, cMutex, counters, callerVars, racedHit, overwrote>>

\* c.mutex.Lock(); c.evictions++; c.mutex.Unlock() } and Put returns (the
\* deferred shard.mutex.Unlock runs)
EvictCount(p) ==
    LET s == ShardOf[loc[p].key] IN
    /\ pc[p] = "evict_count"
    /\ cMutexFree
    /\ evictions' = evictions + 1
    /\ shardMutex' = Unlock(s)
    /\ PutReturns(p, s, loc[p].key, loc[p].value)
    /\ Return(p, NoRet)
    /\ UNCHANGED <<cacheVars, cMutex, hitCount, missCount, totalGets,
                   totalPuts, callerVars, racedHit, overwrote>>

PutStep(p) ==
    \/ PutCount(p) \/ PutLock(p) \/ PutUpdate(p) \/ PutPush(p)
    \/ PutMap(p) \/ EvictRemove(p) \/ EvictDelete(p) \/ EvictCount(p)

(***************************************************************************)
(* LRUCache.Get(key)                                                       *)
(***************************************************************************)
\* the caller's side of Get
StartGet(p, k) ==
    LET s == ShardOf[k]
        follows == fresh[s].set /\ fresh[s].key = k
    IN
    /\ pc' = [pc EXCEPT ![p] = "get_count"]
    /\ loc' = [loc EXCEPT ![p] =
                  [IdleLoc EXCEPT !.key = k,
                                  !.expect = follows,
                                  !.expVal = IF follows THEN fresh[s].value ELSE NoVal,
                                  !.expRaced = follows /\ fresh[s].raced]]
    /\ hist' = [hist EXCEPT ![s] =
                   IF hist[s].on /\ ~OtherPutOn(s, p)
                      /\ perShardLimit(capacity) >= 1
                      /\ Len(hist[s].keys) = perShardLimit(capacity) + 1
                   THEN hist[s] ELSE HistOff]
    /\ UNCHANGED <<cacheVars, lockVars, counters, fresh, racedHit, overwrote>>

\* a goroutine calls Get with any key
CallGet(p) ==
    /\ pc[p] = "idle"
    /\ Started < MaxOps
    /\ \E k \in Keys : StartGet(p, k)
    /\ UNCHANGED callerVars

\* GetCount as a bug would have it: the Get is not counted before the
\* lookup
GetCountSkipped(p) ==
    /\ pc[p] = "get_count"
    /\ cMutexFree
    /\ totalGets' = totalGets
    /\ pc' = [pc EXCEPT ![p] = "get_rlock"]
    /\ UNCHANGED <<cacheVars, lockVars, hitCount, missCount, totalPuts,
                   evictions, loc, callerVars, ghostVars>>

\* c.mutex.Lock(); c.totalGets++; c.mutex.Unlock()
GetCount(p) ==
    /\ pc[p] = "get_count"
    /\ cMutexFree
    /\ totalGets' = totalGets + 1
    /\ pc' = [pc EXCEPT ![p] = "get_rlock"]
    /\ UNCHANGED <<cacheVars, lockVars, hitCount, missCount, totalPuts,
                   evictions, loc, callerVars, ghostVars>>

\* shard.mutex.RLock(); elem, ok := shard.items[key]; and, when ok,
\* value := elem.Value.(*cacheEntry).value
GetLookup(p) ==
    LET s == ShardOf[loc[p].key]
        found == loc[p].key \in KeysOf(items[s])
        e == IF found THEN items[s][loc[p].key] ELSE Nil
    IN
    /\ pc[p] = "get_rlock"
    /\ CanRLock(s)
    /\ shardMutex' = RLock(s, p)
    /\ loc' = [loc EXCEPT ![p].ok = found,
                          ![p].elem = e,
                          ![p].before = [items |-> items[s], evictionQ |-> evictionQ[s]],
                          ![p].value = IF found /\ InList(evictionQ[s], e)
                                       THEN evictionQ[s][IndexOf(evictionQ[s], e)].value
                                       ELSE NoVal]
    /\ pc' = [pc EXCEPT ![p] = "get_runlock"]
    /\ UNCHANGED <<cacheVars, cMutex, counters, callerVars, ghostVars>>

\* shard.mutex.RUnlock(), on either branch
GetRUnlock(p) ==
    LET s == ShardOf[loc[p].key] IN
    /\ pc[p] = "get_runlock"
    /\ shardMutex' = RUnlock(s, p)
    /\ pc' = [pc EXCEPT ![p] = IF loc[p].ok THEN "get_lock" ELSE "get_miss"]
    /\ UNCHANGED <<cacheVars, cMutex, counters, loc, callerVars, ghostVars>>

\* c.mutex.Lock(); c.missCount++; c.mutex.Unlock(); return "", false
GetMiss(p) ==
    /\ pc[p] = "get_miss"
    /\ cMutexFree
    /\ missCount' = missCount + 1
    /\ Return(p, NoRet)
    /\ UNCHANGED <<cacheVars, lockVars, hitCount, totalGets, totalPuts,
                   evictions, callerVars, ghostVars>>

\* shard.mutex.Lock(); shard.evictionQ.MoveToFront(elem); shard.mutex.Unlock()
GetPromote(p) ==
    LET s == ShardOf[loc[p].key] IN
    /\ pc[p] = "get_lock"
    /\ CanLock(s)
    /\ evictionQ' = [evictionQ EXCEPT ![s] = MoveToFront(@, loc[p].elem)]
    /\ racedHit' = (racedHit \/ ~InList(evictionQ[s], loc[p].elem))
    /\ loc' = [loc EXCEPT ![p].elem = Nil,
                          ![p].gone = ~InList(evictionQ[s], loc[p].elem)]
    /\ pc' = [pc EXCEPT ![p] = "get_hit"]
    /\ UNCHANGED <<capacity, items, lockVars, counters, callerVars, fresh, hist, overwrote>>

\* GetHit as a bug would have it: a hit whose element was evicted before the
\* promotion is not counted
GetHitUncounted(p) ==
    /\ pc[p] = "get_hit"
    /\ cMutexFree
    /\ hitCount' = IF racedHit THEN hitCount ELSE hitCount + 1
    /\ Return(p, [NoRet EXCEPT !.value = loc[p].value, !.ok = TRUE])
    /\ UNCHANGED <<cacheVars, lockVars, missCount, totalGets, totalPuts,
                   evictions, callerVars, ghostVars>>

\* c.mutex.Lock(); c.hitCount++; c.mutex.Unlock(); return value, true
GetHit(p) ==
    /\ pc[p] = "get_hit"
    /\ cMutexFree
    /\ hitCount' = hitCount + 1
    /\ Return(p, [NoRet EXCEPT !.value = loc[p].value, !.ok = TRUE])
    /\ UNCHANGED <<cacheVars, lockVars, missCount, totalGets, totalPuts,
                   evictions, callerVars, ghostVars>>

GetStep(p) ==
    \/ GetCount(p) \/ GetLookup(p) \/ GetRUnlock(p)
    \/ GetMiss(p) \/ GetPromote(p) \/ GetHit(p)

(***************************************************************************)
(* LRUCache.Stats()                                                        *)
(***************************************************************************)
\* the caller's side of Stats
StartStats(p) ==
    /\ pc' = [pc EXCEPT ![p] = "stats_rlock"]
    /\ loc' = [loc EXCEPT ![p] = IdleLoc]
    /\ UNCHANGED <<cacheVars, lockVars, counters, ghostVars>>

\* a goroutine calls Stats
CallStats(p) ==
    /\ pc[p] = "idle"
    /\ StartStats(p)
    /\ UNCHANGED callerVars

\* c.mutex.RLock(), released by the deferred RUnlock; totalItems := 0
StatsRLock(p) ==
    /\ pc[p] = "stats_rlock"
    /\ cMutex' = cMutex \cup {p}
    /\ pc' = [pc EXCEPT ![p] = "stats_loop"]
    /\ UNCHANGED <<cacheVars, shardMutex, counters, loc, callerVars, ghostVars>>

\* one round of the loop over c.shards: shard.mutex.RLock();
\* totalItems += len(shard.items); shard.mutex.RUnlock()
StatsShard(p) ==
    /\ pc[p] = "stats_loop"
    /\ loc[p].i < shardCount
    /\ CanRLock(loc[p].i)
    /\ loc' = [loc EXCEPT ![p].totalItems = @ + Cardinality(KeysOf(items[loc[p].i])),
                          ![p].i = @ + 1]
    /\ UNCHANGED <<cacheVars, lockVars, counters, pc, callerVars, ghostVars>>

\* the map Stats returns once the loop is over
StatsResult(p) ==
    [capacity |-> capacity, size |-> loc[p].totalItems, get_ops |-> totalGets,
     put_ops |-> totalPuts, hits |-> hitCount, misses |-> missCount,
     evictions |-> evictions, shard_count |-> shardCount]

\* StatsReturn as a bug would have it: reading the statistics resets them
StatsReturnResets(p) ==
    /\ pc[p] = "stats_loop"
    /\ loc[p].i = shardCount
    /\ cMutex' = cMutex \ {p}
    /\ hitCount' = 0 /\ missCount' = 0 /\ totalGets' = 0
    /\ totalPuts' = 0 /\ evictions' = 0
    /\ Return(p, [NoRet EXCEPT !.stats = StatsResult(p)])
    /\ UNCHANGED <<cacheVars, shardMutex, callerVars, ghostVars>>

\* return, and the deferred c.mutex.RUnlock()
StatsReturn(p) ==
    /\ pc[p] = "stats_loop"
    /\ loc[p].i = shardCount
    /\ cMutex' = cMutex \ {p}
    /\ Return(p, [NoRet EXCEPT !.stats = StatsResult(p)])
    /\ UNCHANGED <<cacheVars, shardMutex, counters, callerVars, ghostVars>>

StatsStep(p) == StatsRLock(p) \/ StatsShard(p) \/ StatsReturn(p)

(***************************************************************************)
(* Goroutines calling one cache concurrently.                              *)
(***************************************************************************)
Next ==
    \E p \in Procs :
        \/ CallPut(p) \/ CallGet(p) \/ CallStats(p)
        \/ PutStep(p) \/ GetStep(p) \/ StatsStep(p)

Spec == Init /\ [][Next]_vars

(***************************************************************************)
(* One goroutine calling the cache: the calls follow one another.          *)
(***************************************************************************)
\* the goroutine that runs when one runs alone
Main == CHOOSE p \in Procs : \A q \in Procs : p <= q

InitSeq ==
    /\ \E c \in 0..SeqMaxCapacity : NewLRUCache(c)
    /\ pc = [p \in Procs |-> IF p = Main THEN "idle" ELSE "off"]
    /\ loc = [p \in Procs |-> IdleLoc]
    /\ conn = [p \in Procs |-> NoConn]
    /\ NoScript
    /\ fresh = [s \in Shards |-> NoFresh]
    /\ hist = [s \in Shards |-> [on |-> TRUE, keys |-> <<>>]]
    /\ racedHit = FALSE
    /\ overwrote = FALSE

SeqPut ==
    /\ pc[Main] = "idle"
    /\ Started < SeqMaxOps
    /\ \E k \in SeqKeys, v \in Vals : StartPut(Main, k, v)
    /\ UNCHANGED callerVars

SeqGet ==
    /\ pc[Main] = "idle"
    /\ Started < SeqMaxOps
    /\ \E k \in SeqKeys : StartGet(Main, k)
    /\ UNCHANGED callerVars

NextSeq == SeqPut \/ SeqGet \/ PutStep(Main) \/ GetStep(Main)

SeqSpec == InitSeq /\ [][NextSeq]_vars

(***************************************************************************)
(* Writer tasks: task p puts WriterPuts times, keys of its own range.      *)
(***************************************************************************)
\* the key range of writer task p: ranges of different tasks are disjoint
Range(p) == {KeyPool[i] : i \in ((p - 1) * WriterPuts + 1)..(p * WriterPuts)}

Scripts(p) == [1..WriterPuts -> Range(p)]

InitWriters ==
    /\ \E c \in 0..MaxCapacity : NewLRUCache(c)
    /\ InitProcs
    /\ todo \in [Procs -> UNION {Scripts(p) : p \in Procs}]
    /\ \A p \in Procs : todo[p] \in Scripts(p)
    /\ inserted = {}
    /\ sent = [p \in Procs |-> <<>>]
    /\ InitGhost

WriterPut(p) ==
    /\ pc[p] = "idle"
    /\ todo[p] # <<>>
    /\ \E v \in Vals : StartPut(p, Head(todo[p]), v)
    /\ todo' = [todo EXCEPT ![p] = Tail(@)]
    /\ inserted' = inserted \cup {Head(todo[p])}
    /\ UNCHANGED <<conn, sent>>

WriterStep(p) == WriterPut(p) \/ PutStep(p)

NextWriters == \E p \in Procs : WriterStep(p)

\* the Go scheduler runs every runnable goroutine, and a goroutine waiting
\* for a mutex gets it once it stays free
WriterSpec ==
    InitWriters /\ [][NextWriters]_vars /\ \A p \in Procs : WF_vars(WriterStep(p))

(***************************************************************************)
(* handleClient (server.go): a goroutine serves one connection.  The       *)
(* client's byte stream reaches the server in chunks: conn[p].wire lists   *)
(* the chunks not yet read, and one read of the socket returns the next    *)
(* chunk.                                                                  *)
(***************************************************************************)
\* frames of one client stream, and cuts of the stream into chunks
MaxFrames == 2
MaxCuts == 1

RECURSIVE Concat(_)
Concat(chunks) == IF chunks = <<>> THEN <<>> ELSE Head(chunks) \o Concat(Tail(chunks))

RECURSIVE Sort(_)
\* the numbers of a set, ascending
Sort(S) ==
    IF S = {} THEN <<>>
    ELSE LET m == CHOOSE x \in S : \A y \in S : x <= y IN <<m>> \o Sort(S \ {m})

\* the stream b, cut after each position of cuts
Split(b, cuts) ==
    LET pts == <<0>> \o Sort(cuts) \o <<Len(b)>> IN
    [i \in 1..(Len(pts) - 1) |-> SubSeq(b, pts[i] + 1, pts[i + 1])]

RECURSIVE CutSets(_, _)
\* the sets of at most k positions among 1..n
CutSets(n, k) ==
    IF k = 0 THEN {{}}
    ELSE CutSets(n, k - 1) \cup {C \cup {x} : C \in CutSets(n, k - 1), x \in 1..n}

\* the ways a stream reaches the server
Chunkings(b) ==
    IF b = <<>> THEN {<<>>}
    ELSE {Split(b, cuts) : cuts \in CutSets(Len(b) - 1, MaxCuts)}

\* well-formed commands a client sends
Commands ==
    {formatRESPCommand(args) : args \in
        {<<PING>>, <<SET, KeyPool[1], ValPool[1]>>, <<SET, KeyPool[2], ValPool[2]>>,
         <<GET, KeyPool[1]>>, <<GET>>, <<STATS>>}}

\* frames that are no commands: a line of one byte
BadFrames == {<<STRINGTYPE, LF>>}

Frames == Commands \cup BadFrames

Streams == UNION {[1..n -> Frames] : n \in 0..MaxFrames}

\* resp := NewResp(conn); value, err := resp.Read().  The new reader reads
\* the socket each time the decoder runs out of bytes: after j reads it has
\* the first j chunks.
Taken(c, j) == Concat(SubSeq(c.wire, 1, j))

\* the numbers of reads after which the decoder is done
Enough(c) == {j \in 0..Len(c.wire) : Read(Taken(c, j), 1, FALSE).st # "more"}

\* the least number of a set, d for the empty set
LeastOr(S, d) == IF S = {} THEN d ELSE CHOOSE j \in S : \A i \in S : j <= i

\* resp.Read() with the reader reading the socket j times
ReadWith(c, j, eof) == [Read(Taken(c, j), 1, eof) EXCEPT !.reads = j]

\* the outcome of resp.Read(): the reader reads the socket until the
\* decoder is done, and to the end of the stream; "more": a read of the
\* socket blocks
DecodedOf(c, enough) == ReadWith(c, LeastOr(enough, Len(c.wire)), enough = {} /\ c.eof)

Decoded(c) == DecodedOf(c, Enough(c))

\* the bytes the reader has got stay with the reader, which is dropped
AfterRead(c, r) == [c EXCEPT !.wire = SubSeq(c.wire, r.reads + 1, Len(c.wire))]

\* processCommand(value) runs up to its call of the cache, or to its return
\* when it makes none
Dispatch(p, call) ==
    CASE call.op = "put" -> StartPut(p, call.key, call.value)
      [] call.op = "get" -> StartGet(p, call.key)
      [] call.op = "stats" -> StartStats(p)
      [] OTHER -> /\ pc' = [pc EXCEPT ![p] = "write"]
                  /\ UNCHANGED <<cacheVars, lockVars, counters, loc, ghostVars>>

\* resp.Read() has returned r
Served(p, r) ==
    /\ r.st = "ok"
    /\ conn' = [conn EXCEPT ![p] = [AfterRead(@, r) EXCEPT !.cmd = r.val,
                                                            !.applied = Append(@, r.val)]]
    /\ Dispatch(p, CacheCall(r.val))
    /\ UNCHANGED scriptVars

\* value, err := resp.Read() returns a value; response := processCommand(value)
Serve(p) ==
    /\ pc[p] = "read"
    /\ Served(p, Decoded(conn[p]))

\* Close as a bug would have it: the socket stays open
CloseNothing(c) == c

\* defer conn.Close(): the socket is closed, what was not read is gone
Close(c) == [c EXCEPT !.open = FALSE, !.wire = <<>>]

\* resp.Read() returns an error: handleClient returns, the deferred
\* conn.Close() runs
ReadFails(p) ==
    /\ pc[p] = "read"
    /\ Decoded(conn[p]).st = "err"
    /\ conn' = [conn EXCEPT ![p] = Close(@)]
    /\ pc' = [pc EXCEPT ![p] = "closed"]
    /\ UNCHANGED <<cacheVars, lockVars, counters, loc, scriptVars, ghostVars>>

\* resp.Read() panics: the deferred conn.Close() runs, no goroutine
\* recovers, the process dies
ReadPanics(p) ==
    /\ pc[p] = "read"
    /\ Decoded(conn[p]).st = "panic"
    /\ conn' = [conn EXCEPT ![p] = Close(@)]
    /\ pc' = [q \in Procs |-> "crashed"]
    /\ UNCHANGED <<cacheVars, lockVars, counters, loc, scriptVars, ghostVars>>

\* response := processCommand(value), returned; NewWriter(conn).Write(response)
WriteOk(p) ==
    /\ pc[p] = "write"
    /\ conn' = [conn EXCEPT ![p].out =
                   Append(@, Marshal(processCommand(conn[p].cmd, loc[p].ret)))]
    /\ pc' = [pc EXCEPT ![p] = "read"]
    /\ loc' = [loc EXCEPT ![p] = IdleLoc]
    /\ UNCHANGED <<cacheVars, lockVars, counters, scriptVars, ghostVars>>

\* the Write returns an error, which it can once the client is gone:
\* handleClient returns, the deferred conn.Close() runs
WriteFails(p) ==
    /\ pc[p] = "write"
    /\ conn[p].eof
    /\ conn' = [conn EXCEPT ![p] = Close(@)]
    /\ pc' = [pc EXCEPT ![p] = "closed"]
    /\ loc' = [loc EXCEPT ![p] = IdleLoc]
    /\ UNCHANGED <<cacheVars, lockVars, counters, scriptVars, ghostVars>>

\* the client closes the connection; what it sent before stays readable
ClientClose(p) ==
    /\ conn[p].attached
    /\ ~conn[p].eof
    /\ pc[p] \notin {"closed", "crashed"}
    /\ conn' = [conn EXCEPT ![p].eof = TRUE]
    /\ UNCHANGED <<cacheVars, lockVars, counters, procVars, scriptVars, ghostVars>>

HandlerStep(p) ==
    \/ Serve(p) \/ ReadFails(p) \/ ReadPanics(p) \/ WriteOk(p) \/ WriteFails(p)
    \/ PutStep(p) \/ GetStep(p) \/ StatsStep(p)

\* one client, whose stream reaches the server in any of its chunkings
InitConn ==
    /\ \E c \in 0..MaxCapacity : NewLRUCache(c)
    /\ pc = [p \in Procs |-> IF p = Main THEN "read" ELSE "off"]
    /\ loc = [p \in Procs |-> IdleLoc]
    /\ \E stream \in Streams : \E wire \in Chunkings(Concat(stream)) :
          conn = [p \in Procs |->
                     IF p = Main
                     THEN [NoConn EXCEPT !.attached = TRUE, !.open = TRUE,
                                         !.wire = wire, !.stream = stream]
                     ELSE NoConn]
    /\ NoScript
    /\ InitGhost

NextConn == \E p \in Procs : HandlerStep(p) \/ ClientClose(p)

ConnSpec == InitConn /\ [][NextConn]_vars

(***************************************************************************)
(* The server's connections.  The cache of the server is the one of        *)
(* var cache = NewLRUCache(1000000): every shard holds an entry at least.  *)
(* The client sends commands, commands the dispatcher rejects, and frames  *)
(* the decoder fails on; its frames reach the server one per read, or all  *)
(* in one read.                                                            *)
(***************************************************************************)
\* the capacity of the server's cache is MaxPerShard entries a shard at most
MaxPerShard == 1

ServerCapacities == {shardCount * n : n \in 1..MaxPerShard}

\* keys and values of the clients: one byte, none, the prefix http, and the
\* longest a SET takes
HttpKey == KeyPool[11]
LongKey == KeyPool[12]
TooLong == LongKey \o <<107>>

\* commands the dispatcher takes
GoodCommands ==
    {formatRESPCommand(args) : args \in
        {<<SET, KeyPool[1], ValPool[1]>>, <<SET, KeyPool[1], <<>>>>,
         <<SET, <<>>, ValPool[1]>>, <<SET, LongKey, LongKey>>,
         <<GET, KeyPool[1]>>, <<GET, <<>>>>, <<GET, HttpKey>>, <<STATS>>}}

\* commands over the cap of SET and PUT
CappedCommands ==
    {formatRESPCommand(args) : args \in
        {<<SET, TooLong, ValPool[1]>>, <<PUT, KeyPool[1], TooLong>>}}

\* the other commands the dispatcher rejects: a value that is no array, an
\* empty array, a number for a command, an unknown command, a wrong arity
RejectedCommands ==
    {Marshal(StringValue(PING)), formatRESPCommand(<<>>),
     Marshal(ArrayValue(<<IntegerValue(1)>>))}
    \cup {formatRESPCommand(args) : args \in
            {<<OK>>, <<GET>>, <<SET, KeyPool[1]>>, <<PUT>>,
             <<PING, KeyPool[1], ValPool[1]>>}}

\* frames the decoder is to fail on: a type byte that is none, a length
\* that is no number, a negative length, a bulk cut short, a line that ends
\* with LF only
UnknownTypeFrame == <<63>> \o CRLF
BadLengthFrame == <<BULK, 120>> \o CRLF
NegativeLengthFrame == <<BULK>> \o Itoa(-2) \o CRLF
TruncatedFrame == <<BULK>> \o Itoa(5) \o CRLF \o <<97, 98>>
NoCRFrame == <<STRINGTYPE>> \o OK \o <<LF>>
\* a bulk whose payload is followed by LF only
BulkNoCRFrame == <<BULK>> \o Itoa(2) \o CRLF \o OK \o <<LF>>

MalformedFrames ==
    {UnknownTypeFrame, BadLengthFrame, NegativeLengthFrame, TruncatedFrame, NoCRFrame}
    \cup BadFrames

ServerFrames == GoodCommands \cup CappedCommands \cup RejectedCommands \cup MalformedFrames

ServerStreams == UNION {[1..n -> ServerFrames] : n \in 0..MaxFrames}

\* every frame in a read of its own, or all frames in one read
Deliveries(stream) ==
    {stream} \cup (IF stream = <<>> THEN {} ELSE {<<Concat(stream)>>})

InitServer ==
    /\ \E c \in ServerCapacities : NewLRUCache(c)
    /\ pc = [p \in Procs |-> IF p = Main THEN "read" ELSE "off"]
    /\ loc = [p \in Procs |-> IdleLoc]
    /\ \E stream \in ServerStreams : \E wire \in Deliveries(stream) :
          conn = [p \in Procs |->
                     IF p = Main
                     THEN [NoConn EXCEPT !.attached = TRUE, !.open = TRUE,
                                         !.wire = wire, !.stream = stream]
                     ELSE NoConn]
    /\ NoScript
    /\ InitGhost

ServerSpec == InitServer /\ [][NextConn]_vars

(***************************************************************************)
(* The codec alone: a peer writes values and frames to a connection, and   *)
(* one Resp, with one bufio.Reader of its own, decodes them and encodes    *)
(* again each value it has decoded.                                        *)
(***************************************************************************)
\* what the peer writes: a Value, which the encoder turns into bytes, or
\* the bytes of a frame as they are
Encoded(v) == [raw |-> FALSE, v |-> v, b |-> <<>>]
RawFrame(b) == [raw |-> TRUE, v |-> NoValue, b |-> b]

\* w.writer.Write(v.Marshal()): the bytes that go out for an item
FrameOf(item) == IF item.raw THEN item.b ELSE Marshal(item.v)

\* $-1 and *-1, the two nulls on the wire, and $0 with its empty payload
NullBulkFrame == <<BULK>> \o Itoa(-1) \o CRLF
NullArrayFrame == <<ARRAY>> \o Itoa(-1) \o CRLF
EmptyBulkFrame == <<BULK>> \o Itoa(0) \o CRLF \o CRLF

CodecValues ==
    {StringValue(<<>>), StringValue(OK), ErrorValue(OK),
     IntegerValue(0), IntegerValue(-7),
     BulkValue(<<>>), BulkValue(GET), BulkValue(CRLF),
     ArrayValue(<<>>), ArrayValue(<<BulkValue(GET), IntegerValue(12)>>),
     ArrayValue(<<ArrayValue(<<BulkValue(<<>>)>>), StringValue(OK)>>),
     NullValue}

\* frames of valid RESP, and frames with a line that ends with LF only: a
\* line of one byte, a line of more, the line after a bulk payload
ValidFrames == {NullBulkFrame, NullArrayFrame, formatRESPCommand(<<GET, <<>>>>)}
BareLFFrames == {NoCRFrame, BulkNoCRFrame} \cup BadFrames
CodecFrames == ValidFrames \cup BareLFFrames

Items == {Encoded(v) : v \in CodecValues} \cup {RawFrame(b) : b \in CodecFrames}

Scores == UNION {[1..n -> Items] : n \in 0..MaxFrames}

\* the frames of the items the peer has to write
FramesOf(score) == [i \in 1..Len(score) |-> FrameOf(score[i])]

\* the peer writes all it has to write; the bytes reach the decoder in any
\* of the chunkings
Send(p) ==
    /\ pc[p] = "encode"
    /\ ~conn[p].eof
    /\ \E wire \in Chunkings(Concat(FramesOf(todo[p]))) :
          conn' = [conn EXCEPT ![p].wire = wire, ![p].stream = FramesOf(todo[p])]
    /\ sent' = [sent EXCEPT ![p] = todo[p]]
    /\ todo' = [todo EXCEPT ![p] = <<>>]
    /\ pc' = [pc EXCEPT ![p] = "decode"]
    /\ UNCHANGED <<cacheVars, lockVars, counters, loc, inserted, ghostVars>>

\* Kept as a bug would have it: the bytes read and not consumed are lost
KeptNothing(c, r) == AfterRead(c, r)

\* the bufio.Reader keeps the bytes it has read and Read has not consumed:
\* they come first at the next Read
Kept(c, r) ==
    LET got == Taken(c, r.reads) IN
    [c EXCEPT !.wire = (IF r.pos > Len(got) THEN <<>> ELSE <<SubSeq(got, r.pos, Len(got))>>)
                       \o SubSeq(c.wire, r.reads + 1, Len(c.wire))]

\* r.Read() of the one Resp has returned r, a value; the value is encoded
DecoderReturns(p, r) ==
    /\ r.st = "ok"
    /\ conn' = [conn EXCEPT ![p] = [Kept(@, r) EXCEPT !.applied = Append(@, r.val),
                                                       !.out = Append(@, Marshal(r.val))]]
    /\ UNCHANGED <<cacheVars, lockVars, counters, procVars, scriptVars, ghostVars>>

DecoderRead(p) ==
    /\ pc[p] = "decode"
    /\ DecoderReturns(p, Decoded(conn[p]))

\* r.Read() returns an error
DecoderFails(p) ==
    /\ pc[p] = "decode"
    /\ Decoded(conn[p]).st = "err"
    /\ pc' = [pc EXCEPT ![p] = "closed"]
    /\ UNCHANGED <<cacheVars, lockVars, counters, loc, callerVars, ghostVars>>

\* r.Read() panics
DecoderPanics(p) ==
    /\ pc[p] = "decode"
    /\ Decoded(conn[p]).st = "panic"
    /\ pc' = [q \in Procs |-> "crashed"]
    /\ UNCHANGED <<cacheVars, lockVars, counters, loc, callerVars, ghostVars>>

InitCodec ==
    /\ NewLRUCache(MaxCapacity)
    /\ pc = [p \in Procs |-> IF p = Main THEN "encode" ELSE "off"]
    /\ loc = [p \in Procs |-> IdleLoc]
    /\ conn = [p \in Procs |-> IF p = Main THEN [NoConn EXCEPT !.attached = TRUE, !.open = TRUE]
                                   ELSE NoConn]
    /\ \E score \in Scores : todo = [p \in Procs |-> IF p = Main THEN score ELSE <<>>]
    /\ inserted = {}
    /\ sent = [p \in Procs |-> <<>>]
    /\ InitGhost

NextCodec ==
    \E p \in Procs :
        \/ Send(p) \/ DecoderRead(p) \/ DecoderFails(p) \/ DecoderPanics(p)
        \/ ClientClose(p)

CodecSpec == InitCodec /\ [][NextCodec]_vars

(***************************************************************************)
(* Notions the properties share.                                           *)
(***************************************************************************)
Min(a, b) == IF a < b THEN a ELSE b

RECURSIVE SumOver(_, _)
\* the sum of f[s] over the shards 0..n-1
SumOver(f, n) == IF n = 0 THEN 0 ELSE f[n - 1] + SumOver(f, n - 1)

\* len(shard.items), summed over the shards
TotalSize == SumOver([s \in Shards |-> Cardinality(KeysOf(items[s]))], shardCount)

\* the keys of the entries in a list
ListKeys(q) == {q[i].key : i \in 1..Len(q)}

\* no Get and no Put is in flight
Quiescent == \A p \in Procs : pc[p] \notin (PutLabels \cup GetLabels)

\* the goroutines that hold the lock p is blocked on (none: p is not blocked)
WaitsFor(p) ==
    IF pc[p] \in {"put_count", "get_count", "get_miss", "get_hit", "evict_count"}
    THEN cMutex
    ELSE IF pc[p] \in {"put_lock", "get_lock"}
    THEN (shardMutex[ShardOf[loc[p].key]].r \cup {shardMutex[ShardOf[loc[p].key]].w}) \ {Nil}
    ELSE IF pc[p] = "get_rlock"
    THEN {shardMutex[ShardOf[loc[p].key]].w} \ {Nil}
    ELSE IF pc[p] = "stats_loop" /\ loc[p].i < shardCount
    THEN {shardMutex[loc[p].i].w} \ {Nil}
    ELSE {}

\* a set of calls each of which waits for a lock another one of them holds
LockCycle ==
    \E D \in (SUBSET Procs) \ {{}} : \A p \in D : WaitsFor(p) \cap D # {}

(***************************************************************************)
(* C1: on a connection whose client sends well-formed commands only, in    *)
(* whatever chunks the stream reaches the server, the commands the server  *)
(* has applied are the first commands sent, in the order sent, and there   *)
(* are no more replies than applied commands; and once the server has read *)
(* all the client has sent so far on the open connection and works on no   *)
(* command, every command sent has been applied and has got its reply.     *)
(***************************************************************************)
\* every frame of p's stream is a well-formed command
WellFormed(p) == \A i \in 1..Len(conn[p].stream) : conn[p].stream[i] \in Commands

\* the values the commands of p's stream denote
Sent(p) == [i \in 1..Len(conn[p].stream) |-> Read(conn[p].stream[i], 1, TRUE).val]

\* the server has nothing left to read on p's open connection and works on
\* no command
Drained(p) ==
    /\ conn[p].attached
    /\ ~conn[p].eof
    /\ conn[p].wire = <<>>
    /\ pc[p] \in {"read", "closed"}

C1_EveryCommandAnswered ==
    \A p \in Procs :
        WellFormed(p) =>
            /\ Len(conn[p].out) <= Len(conn[p].applied)
            /\ Len(conn[p].applied) <= Len(conn[p].stream)
            /\ \A i \in 1..Len(conn[p].applied) : conn[p].applied[i] = Sent(p)[i]
            /\ Drained(p) => /\ Len(conn[p].applied) = Len(conn[p].stream)
                             /\ Len(conn[p].out) = Len(conn[p].stream)

(***************************************************************************)
(* C2: statistics bookkeeping never blocks cache operations into a cycle:  *)
(* in no reachable state of concurrent Put, Get and Stats calls is there a *)
(* set of calls each waiting for a lock that another call of the set       *)
(* holds (such calls never return, however the scheduler runs them).       *)
(***************************************************************************)
C2_NoLockCycle == ~LockCycle

(***************************************************************************)
(* C3: with one writer task per goroutine, each putting WriterPuts times   *)
(* keys of its own range (the ranges pairwise disjoint), every task        *)
(* eventually returns from its last Put, and whenever all have returned    *)
(* the total size is the sum over the shards of min(number of distinct     *)
(* keys put that hash to the shard, capacity / shardCount).                *)
(***************************************************************************)
AllReturned == \A p \in Procs : pc[p] = "idle" /\ todo[p] = <<>>

ExpectedSize ==
    SumOver([s \in Shards |->
                Min(Cardinality({k \in inserted : ShardOf[k] = s}),
                    perShardLimit(capacity))], shardCount)

C3_WritersFinish ==
    /\ [](AllReturned => TotalSize = ExpectedSize)
    /\ <>AllReturned

\* all writers are done, some shard was capped and some entry is left
C3_Witness == AllReturned /\ evictions > 0 /\ TotalSize > 0

(***************************************************************************)
(* C4: a Get(k) called after Put(k, v) returned, with no other Put to k's  *)
(* shard started or in flight in between, finds the key and returns v      *)
(* (whatever the configured capacity).                                     *)
(***************************************************************************)
C4_GetAfterPut ==
    \A p \in Procs :
        (pc[p] \in {"get_runlock", "get_lock", "get_hit", "get_miss"} /\ loc[p].expect)
            => (loc[p].ok /\ loc[p].value = loc[p].expVal)

(***************************************************************************)
(* C5: per-shard LRU.  When the shard limit n is at least 1 and an empty   *)
(* shard has been given n + 1 distinct keys k1..k(n+1) by Puts in that     *)
(* order, with no Get in between, the shard holds exactly k2..k(n+1), and  *)
(* a following Get hits on each of k2..k(n+1) and misses on k1.            *)
(***************************************************************************)
\* shard s has just been filled and overfilled by one key
Overfilled(s) ==
    /\ hist[s].on
    /\ perShardLimit(capacity) >= 1
    /\ Len(hist[s].keys) = perShardLimit(capacity) + 1

Survivors(s) == {hist[s].keys[i] : i \in 2..Len(hist[s].keys)}

C5_LRUEviction ==
    \A s \in Shards :
        Overfilled(s) =>
            /\ KeysOf(items[s]) = Survivors(s)
            /\ \A p \in Procs :
                  (pc[p] \in {"get_runlock", "get_lock", "get_hit", "get_miss"}
                   /\ ShardOf[loc[p].key] = s)
                      => (loc[p].ok <=> loc[p].key \in Survivors(s))

\* a Get of k1 is about to return a miss after a shard of limit 1 was
\* overfilled
C5_Witness ==
    \E s \in Shards :
        /\ Overfilled(s)
        /\ perShardLimit(capacity) = 1
        /\ pc[Main] = "get_miss"
        /\ loc[Main].key = hist[s].keys[1]
        /\ hitCount >= 1

(***************************************************************************)
(* C6: whenever a shard's lock is not held exclusively, the keys of its    *)
(* map are the keys of the entries of its list, each map slot is the list  *)
(* element that carries the same key, and map size = list length.          *)
(***************************************************************************)
Consistent(s) ==
    /\ KeysOf(items[s]) = ListKeys(evictionQ[s])
    /\ \A k \in KeysOf(items[s]) :
          /\ InList(evictionQ[s], items[s][k])
          /\ evictionQ[s][IndexOf(evictionQ[s], items[s][k])].key = k
    /\ Cardinality(KeysOf(items[s])) = Len(evictionQ[s])

C6_MapMatchesList ==
    \A s \in Shards : shardMutex[s].w = Nil => Consistent(s)

\* an unlocked shard with entries, after an eviction and a concurrent hit
C6_Witness ==
    \E s \in Shards :
        /\ shardMutex[s].w = Nil
        /\ Len(evictionQ[s]) >= 1
        /\ evictions >= 1
        /\ \E p \in Procs : pc[p] = "get_hit" /\ ShardOf[loc[p].key] = s

(***************************************************************************)
(* C7: whenever a shard's lock is not held exclusively its list is no      *)
(* longer than capacity / shardCount, and the total a Stats call has       *)
(* added up never exceeds capacity / shardCount times the shard count.     *)
(***************************************************************************)
C7_ShardBound ==
    /\ \A s \in Shards :
          shardMutex[s].w = Nil => Len(evictionQ[s]) <= perShardLimit(capacity)
    /\ \A p \in Procs :
          pc[p] = "stats_loop" =>
              StatsResult(p).size <= perShardLimit(capacity) * shardCount

\* a Stats call is about to report a completely full cache, after an eviction
C7_Witness ==
    \E p \in Procs :
        /\ pc[p] = "stats_loop"
        /\ loc[p].i = shardCount
        /\ StatsResult(p).size = perShardLimit(capacity) * shardCount
        /\ StatsResult(p).size > 0
        /\ evictions >= 1

(***************************************************************************)
(* C8: when no Get and no Put is in flight, gets = hits + misses; a Get    *)
(* whose entry was evicted between its lookup and its promotion counts as  *)
(* one hit.                                                                *)
(***************************************************************************)
C8_GetsBalance == Quiescent => totalGets = hitCount + missCount

\* quiescent after a Get lost its element to an eviction before promoting
C8_Witness == Quiescent /\ racedHit /\ hitCount >= 1

(***************************************************************************)
(* C9: when no Get and no Put is in flight (the cache started empty),      *)
(* puts >= total size + evictions, with equality exactly when no Put found *)
(* its key already present.                                                *)
(***************************************************************************)
C9_PutsAccount ==
    Quiescent =>
        /\ totalPuts >= TotalSize + evictions
        /\ (totalPuts = TotalSize + evictions) <=> ~overwrote

\* quiescent after an overwrite and an eviction
C9_Witness == Quiescent /\ overwrote /\ evictions >= 1 /\ TotalSize >= 1

(***************************************************************************)
(* C10: no step decreases any of the counters hits, misses, gets, puts and *)
(* evictions: not a step of Put, Get or Stats, and not a step that reads,  *)
(* rejects or answers a command.                                           *)
(***************************************************************************)
C10_CountersMonotone ==
    [][/\ hitCount' >= hitCount
       /\ missCount' >= missCount
       /\ totalGets' >= totalGets
       /\ totalPuts' >= totalPuts
       /\ evictions' >= evictions]_vars

\* a STATS command has been answered after a put and an eviction were
\* counted
C10_Witness ==
    \E p \in Procs :
        /\ Len(conn[p].out) = 2
        /\ Named(conn[p].applied[2])
        /\ Cmd(conn[p].applied[2]) = STATS
        /\ totalPuts >= 1
        /\ evictions >= 1

(***************************************************************************)
(* C11: every Value without a null in it (simple string, error, integer,   *)
(* bulk of any length, the empty bulk included, array of such values,      *)
(* nested) that the encoder has encoded is decoded to a value equal to it, *)
(* and the empty bulk goes out as $0 with an empty payload, never as the   *)
(* null $-1.                                                               *)
(***************************************************************************)
RECURSIVE Closed(_)
\* v is of the closed set of values, the nulls left out
Closed(v) ==
    \/ v.typ \in {"string", "error", "integer", "bulk"}
    \/ /\ v.typ = "array"
       /\ \A i \in 1..Len(v.array) : Closed(v.array[i])

C11_RoundTrip ==
    \A p \in Procs :
        \A i \in 1..Min(Len(conn[p].applied), Len(sent[p])) :
            (~sent[p][i].raw /\ Closed(sent[p][i].v)) =>
                /\ conn[p].applied[i] = sent[p][i].v
                /\ sent[p][i].v = BulkValue(<<>>) => conn[p].stream[i] = EmptyBulkFrame

(***************************************************************************)
(* C12: the two nulls are different values and each goes back to its own   *)
(* bytes: what the decoder makes of $-1 is encoded as $-1, what it makes   *)
(* of *-1 is encoded as *-1 and is not the value it makes of $-1.          *)
(***************************************************************************)
C12_NullsRoundTrip ==
    \A p \in Procs :
        \A i \in 1..Min(Len(conn[p].applied), Len(conn[p].stream)) :
            /\ conn[p].stream[i] = NullBulkFrame => conn[p].out[i] = NullBulkFrame
            /\ conn[p].stream[i] = NullArrayFrame =>
                  /\ conn[p].out[i] = NullArrayFrame
                  /\ conn[p].applied[i] # Read(NullBulkFrame, 1, TRUE).val

(***************************************************************************)
(* C19: one decoder, fed the frames of values v1..vn of valid RESP in any  *)
(* split into fragments, one fragment per read of the connection, returns  *)
(* at its i-th Read the value of the i-th frame, the value the frame       *)
(* denotes when it is decoded alone and unsplit (vi itself when the        *)
(* encoder wrote vi and vi holds no empty bulk): it never returns more     *)
(* values than frames, it has returned all n once it has consumed the      *)
(* bytes, and it fails only at the end of the stream.                      *)
(***************************************************************************)
RECURSIVE NoEmptyBulk(_)
\* no bulk of length 0 in v
NoEmptyBulk(v) ==
    /\ v # BulkValue(<<>>)
    /\ \A i \in 1..Len(v.array) : NoEmptyBulk(v.array[i])

\* the peer of p's decoder has written valid RESP only
ValidSent(p) ==
    /\ conn[p].attached
    /\ \A i \in 1..Len(sent[p]) : sent[p][i].raw => sent[p][i].b \in ValidFrames

C19_ChunkedDecoding ==
    \A p \in Procs :
        ValidSent(p) =>
            /\ pc[p] # "crashed"
            /\ Len(conn[p].applied) <= Len(sent[p])
            /\ \A i \in 1..Len(conn[p].applied) :
                  /\ conn[p].applied[i] = Read(conn[p].stream[i], 1, TRUE).val
                  /\ (~sent[p][i].raw /\ NoEmptyBulk(sent[p][i].v)) =>
                        conn[p].applied[i] = sent[p][i].v
            /\ (pc[p] = "decode" /\ conn[p].wire = <<>>) =>
                  Len(conn[p].applied) = Len(sent[p])
            /\ pc[p] = "closed" => Len(conn[p].applied) = Len(sent[p])

\* the decoder has returned two values, the second a nested array, the
\* first the command of a client with an empty argument
C19_Witness ==
    \E p \in Procs :
        /\ ValidSent(p)
        /\ Len(sent[p]) = 2
        /\ Len(conn[p].applied) = 2
        /\ sent[p][1].raw
        /\ conn[p].applied[1] = ArrayValue(<<BulkValue(GET), BulkValue(<<>>)>>)
        /\ ~sent[p][2].raw
        /\ conn[p].applied[2] = ArrayValue(<<BulkValue(GET), IntegerValue(12)>>)

(***************************************************************************)
(* The replies of GET.                                                     *)
(***************************************************************************)
\* the i-th command of connection p is a GET of a key that no command
\* before it has stored
GetOfAbsent(p, i) ==
    /\ CacheCall(conn[p].applied[i]).op = "get"
    /\ \A j \in 1..(i - 1) :
          CacheCall(conn[p].applied[j]).op = "put"
             => CacheCall(conn[p].applied[j]).key # CacheCall(conn[p].applied[i]).key

\* C13: the reply to a GET of a key that is not in the cache is the null
\* bulk $-1, whatever the key is and whatever it starts with.
C13_MissIsNull ==
    \A p \in Procs : \A i \in 1..Len(conn[p].out) :
        GetOfAbsent(p, i) => conn[p].out[i] = NullBulkFrame

\* the bulk string of the bytes v, with its length before it
BulkFrame(v) == <<BULK>> \o Itoa(Len(v)) \o CRLF \o v \o CRLF

\* the two commands of connection p are a SET that was answered OK and a
\* GET of its key, both answered, and nothing was evicted
SetThenGet(p) ==
    /\ Len(conn[p].out) = 2
    /\ CacheCall(conn[p].applied[1]).op = "put"
    /\ conn[p].out[1] = Marshal(StringValue(OK))
    /\ CacheCall(conn[p].applied[2]).op = "get"
    /\ CacheCall(conn[p].applied[2]).key = CacheCall(conn[p].applied[1]).key
    /\ evictions = 0

\* C14: after SET key value was answered OK, with key and value of 0 to
\* 256 bytes, a GET of the key on the same connection, nothing evicted in
\* between, is answered with the bulk string of exactly the value, its
\* length before it, and that reply is not the reply to a miss.
C14_SetThenGet ==
    \A p \in Procs :
        SetThenGet(p) =>
            /\ conn[p].out[2] = BulkFrame(CacheCall(conn[p].applied[1]).value)
            /\ conn[p].out[2] # NullBulkFrame

(***************************************************************************)
(* The cap of SET and PUT.                                                 *)
(***************************************************************************)
\* a SET or a PUT of three elements
Storing(value) ==
    /\ Named(value)
    /\ Cmd(value) \in {SET, PUT}
    /\ Len(value.array) = 3

\* its key or its value is longer than 256 bytes
OverCap(value) ==
    /\ Storing(value)
    /\ \/ Len(Arg(value.array[2])) > MaxLength
       \/ Len(Arg(value.array[3])) > MaxLength

\* its key and its value are 256 bytes at most, and one of them is 256
AtCap(value) ==
    /\ Storing(value)
    /\ Len(Arg(value.array[2])) <= MaxLength
    /\ Len(Arg(value.array[3])) <= MaxLength
    /\ MaxLength \in {Len(Arg(value.array[2])), Len(Arg(value.array[3]))}

\* the cache holds key k with value v
Holds(k, v) ==
    /\ k \in KeysOf(items[ShardOf[k]])
    /\ \E i \in 1..Len(evictionQ[ShardOf[k]]) :
          /\ evictionQ[ShardOf[k]][i].id = items[ShardOf[k]][k]
          /\ evictionQ[ShardOf[k]][i].value = v

\* the replies: the error to a command over the cap, no error to one at the
\* cap, whose key the cache then holds
CapReplies ==
    \A p \in Procs : \A i \in 1..Len(conn[p].out) :
        /\ OverCap(conn[p].applied[i])
              => conn[p].out[i] = Marshal(ErrorValue(ErrTooLong))
        /\ AtCap(conn[p].applied[i])
              => /\ conn[p].out[i][1] # ERROR
                 /\ i = Len(conn[p].applied)
                       => Holds(Arg(conn[p].applied[i].array[2]),
                                Arg(conn[p].applied[i].array[3]))

\* the step in which connection p takes a command over the cap, or answers
\* it, leaves the cache and the counters as they are
CapStep ==
    \A p \in Procs :
        (/\ OverCap(conn'[p].cmd)
         /\ \/ conn'[p].applied # conn[p].applied
            \/ conn'[p].out # conn[p].out)
            => UNCHANGED <<cacheVars, counters>>

\* C15: a SET or PUT of three elements whose key or value is longer than
\* 256 bytes is answered with the error "ERR key or value too long (max 256
\* chars)" and leaves the contents of the cache, its recency order and all
\* counters, puts included, unchanged; a key and a value of exactly 256
\* bytes are accepted.
C15_CapEnforced == []CapReplies /\ [][CapStep]_vars

\* a SET of 256 bytes was stored and a SET over the cap after it was
\* refused: one put is counted
C15_Witness ==
    \E p \in Procs :
        /\ Len(conn[p].out) = 2
        /\ AtCap(conn[p].applied[1])
        /\ OverCap(conn[p].applied[2])
        /\ conn[p].out[2] = Marshal(ErrorValue(ErrTooLong))
        /\ Holds(LongKey, LongKey)
        /\ totalPuts = 1

(***************************************************************************)
(* Commands the dispatcher rejects.                                        *)
(***************************************************************************)
\* value breaks a rule of the dispatcher: no array, an empty array, no
\* string for a command, an unknown command, a wrong number of arguments
\* for PING, GET, SET or PUT, a key or a value over the cap
Violation(value) ==
    IF value.typ # "array" THEN TRUE
    ELSE IF Len(value.array) = 0 THEN TRUE
    ELSE IF value.array[1].typ \notin {"bulk", "string"} THEN TRUE
    ELSE \/ Cmd(value) \notin {PING, SET, PUT, GET, STATS}
         \/ Cmd(value) = PING /\ Len(value.array) > 2
         \/ Cmd(value) = GET /\ Len(value.array) # 2
         \/ Cmd(value) \in {SET, PUT} /\ Len(value.array) # 3
         \/ OverCap(value)

\* every frame the client of p sends is one the decoder takes
OnlyCommands(p) ==
    /\ conn[p].attached
    /\ \A i \in 1..Len(conn[p].stream) :
          conn[p].stream[i] \in GoodCommands \cup CappedCommands \cup RejectedCommands

\* C16: every command that breaks a rule of the dispatcher (a top-level
\* value that is no array, an empty array, a command slot that is no
\* string, an unknown command, a wrong arity of PING, GET, SET or PUT, the
\* length cap) gets exactly one error reply, leaves the cache and the
\* counters unchanged, and leaves the connection open: the next command on
\* the connection is still decoded and answered.
C16_ViolationsAnswered ==
    \A p \in Procs :
        OnlyCommands(p) =>
            /\ Len(conn[p].out) <= Len(conn[p].applied)
            /\ \A i \in 1..Len(conn[p].out) :
                  Violation(conn[p].applied[i]) => conn[p].out[i][1] = ERROR
            /\ (\A i \in 1..Len(conn[p].applied) : Violation(conn[p].applied[i]))
                  => /\ TotalSize = 0
                     /\ hitCount = 0 /\ missCount = 0 /\ totalGets = 0
                     /\ totalPuts = 0 /\ evictions = 0
            /\ (~conn[p].eof /\ \E i \in 1..Len(conn[p].applied) : Violation(conn[p].applied[i]))
                  => conn[p].open
            /\ (Drained(p) /\ \E i \in 1..Len(conn[p].stream) : Violation(Sent(p)[i]))
                  => /\ Len(conn[p].applied) = Len(conn[p].stream)
                     /\ Len(conn[p].out) = Len(conn[p].stream)

(***************************************************************************)
(* Frames the decoder is to fail on.                                       *)
(***************************************************************************)
\* the last frame the client of p sends is malformed, the frames before it
\* are commands
EndsMalformed(p) ==
    /\ conn[p].attached
    /\ conn[p].stream # <<>>
    /\ conn[p].stream[Len(conn[p].stream)] \in MalformedFrames
    /\ \A i \in 1..(Len(conn[p].stream) - 1) :
          conn[p].stream[i] \in GoodCommands \cup CappedCommands \cup RejectedCommands

\* C17: on a malformed frame (an unknown type byte, a length that is no
\* number, a negative length other than -1, a bulk cut short, a line
\* without CRLF) the decoder fails: the server sends no reply for the
\* frame, applies nothing of it, and terminates that connection, and no
\* other.
C17_MalformedCloses ==
    \A p \in Procs :
        EndsMalformed(p) =>
            /\ pc[p] # "crashed"
            /\ Len(conn[p].applied) < Len(conn[p].stream)
            /\ Len(conn[p].out) < Len(conn[p].stream)

(***************************************************************************)
(* The socket of a handler that has returned.                              *)
(***************************************************************************)
\* handleClient of connection p has returned
Stopped(p) == conn[p].attached /\ pc[p] = "closed"

\* C18: every handler that stops, because the peer closed or reset the
\* connection, the decoder failed or the write failed, has closed its
\* socket.
C18_StoppedIsClosed == \A p \in Procs : Stopped(p) => ~conn[p].open

\* a handler answered a command, then stopped on a frame the decoder
\* failed on, the client still there; its socket is closed
C18_Witness ==
    \E p \in Procs :
        /\ Stopped(p)
        /\ ~conn[p].eof
        /\ Len(conn[p].out) = 1
        /\ ~conn[p].open

(***************************************************************************)
(* Two Puts of one key at once.                                            *)
(***************************************************************************)
\* the entries shard s lists for key k
EntriesOf(s, k) == {i \in 1..Len(evictionQ[s]) : evictionQ[s][i].key = k}

\* two Puts of one key of shard s, with different values, ran concurrently
\* and both have returned, and no Put to the shard has started since; the
\* shard has room for an entry, as the shards of the server have
RaceOver(s) ==
    /\ fresh[s].set
    /\ fresh[s].raced
    /\ perShardLimit(capacity) >= 1

\* C20: when two connections put(k, v1) and put(k, v2) concurrently and
\* both have returned, with no other write to k, the shard holds exactly one
\* entry for k, whose value is that of the put that took the lock of the
\* shard last, and every later get(k) returns that value.
C20_LastPutWins ==
    /\ \A s \in Shards :
          RaceOver(s) =>
              /\ fresh[s].last
              /\ Cardinality(EntriesOf(s, fresh[s].key)) = 1
              /\ Holds(fresh[s].key, fresh[s].value)
    /\ \A p \in Procs :
          (/\ pc[p] \in {"get_runlock", "get_lock", "get_hit", "get_miss"}
           /\ loc[p].expRaced
           /\ perShardLimit(capacity) >= 1)
              => (loc[p].ok /\ loc[p].value = loc[p].expVal)

\* after such a race a Get of the key has found the value of the Put that
\* took the lock last
C20_Witness ==
    \E p \in Procs :
        /\ pc[p] = "get_hit"
        /\ loc[p].expRaced
        /\ RaceOver(ShardOf[loc[p].key])
        /\ loc[p].value = fresh[ShardOf[loc[p].key]].value

(***************************************************************************)
(* The bound of a shard.                                                   *)
(***************************************************************************)
Max(a, b) == IF a > b THEN a ELSE b

\* the bound with a floor of one entry
FlooredLimit == Max(1, capacity \div shardCount)

\* C21: the bound Put enforces on a shard is max(1, capacity / shardCount):
\* a Put evicts only when the list of its shard is longer than that, so
\* that, also for a capacity below the shard count, a shard retains an
\* entry after a Put to it has returned.
C21_FloorOfOne ==
    /\ \A p \in Procs :
          pc[p] = "evict_remove"
             => Len(evictionQ[ShardOf[loc[p].key]]) > FlooredLimit
    /\ \A s \in Shards : fresh[s].set => Len(evictionQ[s]) >= 1

(***************************************************************************)
(* A Get whose element is evicted before its promotion.                    *)
(***************************************************************************)
\* the Get of p takes the lock for its promotion, and a Put has removed the
\* element it looked up in the meantime
RacedPromotion(p) ==
    /\ pc[p] = "get_lock"
    /\ pc'[p] = "get_hit"
    /\ ~InList(evictionQ[ShardOf[loc[p].key]], loc[p].elem)

\* the Get of p returns
GetReturns(p) == pc[p] \in {"get_hit", "get_miss"} /\ pc'[p] \notin GetLabels

\* the promotion changes no list and no map, and the Get keeps the value it
\* has read; the Get returns that value, as found
RacedGetStep ==
    \A p \in Procs :
        /\ RacedPromotion(p)
              => /\ UNCHANGED <<items, evictionQ>>
                 /\ loc'[p].gone
                 /\ loc'[p].ok
                 /\ loc'[p].value = loc[p].value
        /\ (GetReturns(p) /\ loc[p].gone)
              => loc'[p].ret = [NoRet EXCEPT !.value = loc[p].value, !.ok = TRUE]

\* C22: when a concurrent Put evicts key k after a Get(k) has read k's value
\* under the shared lock and released it, and before the Get takes the lock
\* exclusively, the Get still returns the value it read, as found, and its
\* promotion is a no-op: the evicted node is not linked into the list again,
\* k is not added to the map again, the other entries keep their order.
C22_EvictedPromotion == [][RacedGetStep]_vars

\* a Get has returned a value as found, and its key is not in the cache: the
\* Put of another key evicted it before the promotion
C22_Witness ==
    \E p \in Procs :
        /\ pc[p] = "get_hit"
        /\ loc[p].gone
        /\ loc[p].ok
        /\ loc[p].value \in Vals
        /\ loc[p].key \notin KeysOf(items[ShardOf[loc[p].key]])
        /\ loc[p].key \notin ListKeys(evictionQ[ShardOf[loc[p].key]])

(***************************************************************************)
(* What a Put changes.                                                     *)
(***************************************************************************)
\* the Put of p takes a step; it returns
PutSteps(p) == pc[p] \in PutLabels /\ pc'[p] # pc[p]
PutHasReturned(p) == pc[p] \in PutLabels /\ pc'[p] \notin PutLabels

\* the list q without its last element
Front(q) == SubSeq(q, 1, Len(q) - 1)

\* a step of a Put changes the shard of its key only; it shortens the list
\* only by its tail, when the key was not in the shard and the list with
\* the new entry is longer than capacity / shardCount; it counts the Put
\* once, at its first step, and an eviction when it returns from one
PutFrame(p, s) ==
    /\ \A t \in Shards \ {s} : items'[t] = items[t] /\ evictionQ'[t] = evictionQ[t]
    /\ Len(evictionQ'[s]) < Len(evictionQ[s])
          => /\ evictionQ'[s] = Front(evictionQ[s])
             /\ loc[p].key \notin KeysOf(loc[p].before.items)
             /\ Len(evictionQ[s]) = Len(loc[p].before.evictionQ) + 1
             /\ Len(evictionQ[s]) > capacity \div shardCount
             /\ loc[p].removed = 0
    /\ totalPuts' = totalPuts + (IF pc[p] = "put_count" THEN 1 ELSE 0)
    /\ evictions' = evictions + (IF PutHasReturned(p) THEN loc[p].removed ELSE 0)
    /\ PutHasReturned(p)
          => /\ loc[p].removed \in {0, 1}
             /\ Len(evictionQ'[s]) =
                   Len(loc[p].before.evictionQ) - loc[p].removed
                   + (IF loc[p].key \in KeysOf(loc[p].before.items) THEN 0 ELSE 1)

\* C23: a put(k, v) changes only the shard k selects, the map and the list
\* of every other shard stay as they are; it removes one entry at most, the
\* tail of the list of that shard, and only when k was absent and the
\* insertion made the list longer than the capacity of a shard; the
\* evictions counter grows by the number of entries removed and puts grows
\* by one.
C23_PutFrame ==
    [][\A p \in Procs : PutSteps(p) => PutFrame(p, ShardOf[loc[p].key])]_vars

\* a Put of a new key has removed the oldest entry of its shard and is
\* about to count the eviction, another shard holding an entry
C23_Witness ==
    \E p \in Procs :
        /\ pc[p] = "evict_count"
        /\ loc[p].removed = 1
        /\ Len(loc[p].before.evictionQ) >= 1
        /\ loc[p].ekey # loc[p].key
        /\ \E t \in Shards \ {ShardOf[loc[p].key]} : Len(evictionQ[t]) >= 1

(***************************************************************************)
(* A Put of a key that is present.                                         *)
(***************************************************************************)
\* the list q of a shard after the entry of key k, element e, took value v
\* and went to the front, the other entries in the order they had
Overwritten(q, k, e, v) ==
    <<[id |-> e, key |-> k, value |-> v]>> \o SelectSeq(q, LAMBDA n : n.key # k)

\* a step of a Put of a key its shard held when the Put took the lock
OverwriteStep(p, s) ==
    /\ KeysOf(items'[s]) = KeysOf(items[s])
    /\ Len(evictionQ'[s]) = Len(evictionQ[s])
    /\ evictions' = evictions
    /\ pc'[p] \notin {"evict_remove", "evict_delete", "evict_count"}
    /\ PutHasReturned(p)
          => /\ items'[s] = loc[p].before.items
             /\ evictionQ'[s] =
                   Overwritten(loc[p].before.evictionQ, loc[p].key,
                               loc[p].before.items[loc[p].key], loc[p].value)

\* C24: a put(k, v) of a key that is already present replaces the value in
\* the node the key has, moves that node to the front of the list and
\* leaves the key set and the size as they were; it never evicts, not even
\* in a shard that is at capacity.
C24_OverwriteInPlace ==
    [][\A p \in Procs :
          PutSteps(p) /\ loc[p].key \in KeysOf(loc[p].before.items)
             => OverwriteStep(p, ShardOf[loc[p].key])]_vars

\* three Puts and nothing else: the third was of the older of the two
\* entries of a shard that is at capacity, and that entry is at the front
C24_Witness ==
    \E s \in Shards :
        /\ Quiescent /\ overwrote
        /\ totalPuts = 3 /\ totalGets = 0 /\ evictions = 0
        /\ capacity \div shardCount = 2
        /\ Len(evictionQ[s]) = 2
        /\ evictionQ[s][1].id < evictionQ[s][2].id
        /\ fresh[s].set /\ fresh[s].key = evictionQ[s][1].key
        /\ fresh[s].value = evictionQ[s][1].value
        /\ evictionQ[s][2].value # evictionQ[s][1].value

(***************************************************************************)
(* What a Get changes.                                                     *)
(***************************************************************************)
\* the Get of p takes a step; it returns
GetSteps(p) == pc[p] \in GetLabels /\ pc'[p] # pc[p]
GetHasReturned(p) == pc[p] \in GetLabels /\ pc'[p] \notin GetLabels

\* the entries of the list q, whatever their order
Entries(q) == {q[i] : i \in 1..Len(q)}

\* the list q with the entry of key k at the front, the other entries in
\* the order they had
Promoted(q, k) ==
    SelectSeq(q, LAMBDA n : n.key = k) \o SelectSeq(q, LAMBDA n : n.key # k)

\* a step of a Get touches no map and no entry, and the list of no shard
\* but the one of its key; the Get of a key that is not there leaves that
\* list as it found it and returns a miss, the Get of a key that is there
\* leaves the list with that key first and the others in their order and
\* returns the value
GetFrame(p, s) ==
    /\ items' = items
    /\ \A t \in Shards \ {s} : evictionQ'[t] = evictionQ[t]
    /\ Entries(evictionQ'[s]) = Entries(evictionQ[s])
    /\ Len(evictionQ'[s]) = Len(evictionQ[s])
    /\ loc[p].key \notin ListKeys(evictionQ[s]) => evictionQ'[s] = evictionQ[s]
    /\ GetHasReturned(p)
          => IF loc[p].key \in KeysOf(loc[p].before.items)
             THEN /\ loc'[p].ret.ok
                  /\ evictionQ'[s] = Promoted(loc[p].before.evictionQ, loc[p].key)
                  /\ evictionQ'[s][1].key = loc[p].key
                  /\ evictionQ'[s][1].value = loc'[p].ret.value
             ELSE /\ ~loc'[p].ret.ok
                  /\ evictionQ'[s] = loc[p].before.evictionQ

\* C25: a get changes the key set and the stored values of no shard. On a
\* miss the shard, map and list order, is as it was; on a hit the recency
\* order alone changes: the key is moved to the most-recently-used position
\* and the other entries keep their relative order, so that every entry
\* that was in the shard is nearer to eviction than the promoted key.
C25_GetFrame ==
    [][\A p \in Procs : GetSteps(p) => GetFrame(p, ShardOf[loc[p].key])]_vars

\* a Get has promoted the last of three entries of a shard and is about to
\* return: the two others follow it in the order they were put in
C25_Witness ==
    \E p \in Procs :
        LET s == ShardOf[loc[p].key] IN
        /\ pc[p] = "get_hit"
        /\ totalGets = 1 /\ totalPuts = 3 /\ evictions = 0
        /\ Len(evictionQ[s]) = 3
        /\ evictionQ[s][1].key = loc[p].key
        /\ loc[p].before.evictionQ[3].key = loc[p].key
        /\ evictionQ[s][2] = loc[p].before.evictionQ[1]
        /\ evictionQ[s][3] = loc[p].before.evictionQ[2]

(***************************************************************************)
(* Lines that end with LF only.                                            *)
(***************************************************************************)
\* the places of the frames of p's peer that have a line ending with LF only
BareLFAt(p) == {i \in 1..Len(conn[p].stream) : conn[p].stream[i] \in BareLFFrames}

CountedGets == {p \in Procs : pc[p] \in GetLabels \ {"get_count"}}

\* C27: in every reachable state, Gets in flight or not, hits + misses <=
\* gets: a Get is counted in gets before its hit or its miss is, and it
\* adds one to gets and one to either hits or misses, so that gets is ahead
\* by the number of Gets that are between the two.
C27_GetsLead ==
    /\ hitCount + missCount <= totalGets
    /\ totalGets = hitCount + missCount + Cardinality(CountedGets)

\* one Get has recorded its result, two more are counted and have not
C27_Witness ==
    /\ hitCount + missCount >= 1
    /\ totalGets = hitCount + missCount + 2
    /\ \E p \in Procs : pc[p] = "get_miss"
    /\ \E p \in Procs : pc[p] = "get_runlock"

(***************************************************************************)
(* Two connections.  Every goroutine serves a client of its own; the       *)
(* frames of a client reach the server one per read.  The first client     *)
(* sends commands, the others send a frame of any kind.                    *)
(***************************************************************************)
\* an array of a negative length
NegativeArrayFrame == <<ARRAY>> \o Itoa(-2) \o CRLF

\* frames a client sends: three commands, and three frames the decoder is
\* to fail on
PairCommands ==
    {formatRESPCommand(args) : args \in
        {<<SET, KeyPool[1], ValPool[1]>>, <<GET, KeyPool[1]>>, <<STATS>>}}

PairMalformed == {NegativeLengthFrame, NegativeArrayFrame} \cup BadFrames

\* frames of a client that is not the first
MaxOtherFrames == 1

PairStreams(p) ==
    IF p = Main
    THEN UNION {[1..n -> PairCommands] : n \in 0..MaxFrames}
    ELSE UNION {[1..n -> PairCommands \cup PairMalformed] : n \in 0..MaxOtherFrames}

\* a cache no shard of which holds an entry, and one of an entry a shard
PairCapacities == {0, shardCount}

InitPair ==
    /\ \E c \in PairCapacities : NewLRUCache(c)
    /\ pc = [p \in Procs |-> "read"]
    /\ loc = [p \in Procs |-> IdleLoc]
    /\ \E streams \in [Procs -> UNION {PairStreams(p) : p \in Procs}] :
          /\ \A p \in Procs : streams[p] \in PairStreams(p)
          /\ conn = [p \in Procs |->
                     [NoConn EXCEPT !.attached = TRUE, !.open = TRUE,
                                    !.wire = streams[p], !.stream = streams[p]]]
    /\ NoScript
    /\ InitGhost

PairSpec == InitPair /\ [][NextConn]_vars

\* every frame the client of p sends is a command
SendsCommands(p) ==
    /\ conn[p].attached
    /\ \A i \in 1..Len(conn[p].stream) : conn[p].stream[i] \in PairCommands

\* C28: a malformed frame on one connection (a bulk or an array of a length
\* below -1, a line of LF alone) affects that connection only: it does not
\* end the server process, and the handlers of the other connections keep
\* decoding and answering: a client that sends commands only and stays has
\* all of them applied and answered.
C28_OthersKeepServing ==
    \A p \in Procs :
        SendsCommands(p) =>
            /\ pc[p] # "crashed"
            /\ Drained(p) => /\ Len(conn[p].applied) = Len(conn[p].stream)
                             /\ Len(conn[p].out) = Len(conn[p].stream)

(***************************************************************************)
(* The capacity of the cache as a whole.                                   *)
(***************************************************************************)
\* the lengths of the lists, summed over the shards
TotalListed == SumOver([s \in Shards |-> Len(evictionQ[s])], shardCount)

\* C29: in every quiescent state the cache holds no more entries, over all
\* its shards, than the capacity it was made with, whatever the capacity.
C29_TotalBound ==
    Quiescent => /\ TotalSize <= capacity
                 /\ TotalListed <= capacity

\* quiescent, after an eviction, every shard full and the cache with them
C29_Witness ==
    /\ Quiescent
    /\ evictions >= 1
    /\ capacity >= shardCount
    /\ TotalSize = capacity
    /\ \A s \in Shards : Len(evictionQ[s]) >= 1

(***************************************************************************)
(* The shard of a key.                                                     *)
(***************************************************************************)
\* the 32-bit FNV-1a hashes of the first keys of KeyPool, as the reference
\* implementation gives them, in halves: a 0xE40C292C, c 0xE60C2C52,
\* b 0xE70C2DE5, e 0xE00C22E0, d 0xE10C2473, g 0xE20C2606, ab 0x4D2505CA,
\* the empty key 0x811C9DC5, f 0xE30C2799, h 0xED0C3757
FNVReference ==
    << <<58380, 10540>>, <<58892, 11346>>, <<59148, 11749>>, <<57356, 8928>>,
       <<57612, 9331>>, <<57868, 9734>>, <<19749, 1482>>, <<33052, 40389>>,
       <<58124, 10137>>, <<60684, 14167>> >>

\* the hash of the model gives what the reference gives, and the index is
\* that hash masked; the index of every key is the index of a shard
HashAgrees ==
    /\ \A i \in 1..Len(FNVReference) :
          /\ fnv1a(<<FNVOffsetHi, FNVOffsetLo>>, KeyPool[i]) = FNVReference[i]
          /\ getShard(KeyPool[i]) = FNVReference[i][2] % shardCount
    /\ \A k \in AllKeys : ShardOf[k] \in Shards

\* the shard the reference hash of key k selects
ReferenceShard(k) ==
    FNVReference[CHOOSE i \in 1..Len(FNVReference) : KeyPool[i] = k][2] % shardCount

\* the shards that hold key k, in the map or in the list
HoldersOf(k) == {s \in Shards : k \in KeysOf(items[s]) \cup ListKeys(evictionQ[s])}

\* C30: the shard index of a key is its 32-bit FNV-1a hash (offset basis
\* 2166136261, prime 16777619, modulo 2^32) masked with the shard count
\* less one, a number from 0 up to the shard count; every key in the cache
\* is stored in the one shard its hash selects and in no other.
C30_ShardOfKey ==
    /\ HashAgrees
    /\ \A k \in Keys : HoldersOf(k) \subseteq {ReferenceShard(k)}

\* quiescent, no eviction so far: every shard holds a key and a Get has
\* found one
C30_Witness ==
    /\ Quiescent
    /\ evictions = 0
    /\ hitCount >= 1
    /\ \A s \in Shards : \E k \in Keys : HoldersOf(k) = {s}

=============================================================================
